---- MODULE Spec2Model ----
(***************************************************************************)
(* A model of nobletk/json-parser: the lexer (internal/lexer), the token   *)
(* type (internal/token), the value tree (internal/ast) and the recursive  *)
(* descent parser (internal/parser).                                       *)
(*                                                                         *)
(* Bytes are one-character strings; byte 0 is the symbol NUL.  A string of *)
(* the program is a sequence of such bytes.  A Go value that may be nil is *)
(* a sequence of length 0 (nil) or 1 (the value).                          *)
(***************************************************************************)
EXTENDS Integers, Sequences, FiniteSets, TLC

\* ------------------------------------------------------------------ bytes

NUL == "NUL"

Str(s) == [i \in 1..Len(s) |-> SubSeq(s, i, i)]

Digits == {"0", "1", "2", "3", "4", "5", "6", "7", "8", "9"}

Letters ==
    {"a", "b", "c", "d", "e", "f", "g", "h", "i", "j", "k", "l", "m",
     "n", "o", "p", "q", "r", "s", "t", "u", "v", "w", "x", "y", "z",
     "A", "B", "C", "D", "E", "F", "G", "H", "I", "J", "K", "L", "M",
     "N", "O", "P", "Q", "R", "S", "T", "U", "V", "W", "X", "Y", "Z", "_"}

\* the bytes 0..31 that the model's inputs can contain
ControlChars == {NUL, "\t", "\n", "\r", "\f"}

NumberChars == Digits \cup {".", "-", "+", "e", "E"}

HexDigits ==
    Digits \cup {"a", "b", "c", "d", "e", "f", "A", "B", "C", "D", "E", "F"}

\* Go's s[lo:hi] on a 0-based string
Slice(s, lo, hi) == SubSeq(s, lo + 1, hi)

\* Go's s[i] on a 0-based string
At(s, i) == s[i + 1]

\* ------------------------------------------------------------------ token

ILLEGAL == "ILLEGAL"
EOF == "EOF"
STRING_T == "STRING"
NUMBER == "NUMBER"
TRUE_T == "TRUE"
FALSE_T == "FALSE"
NULL_T == "NULL"
COMMA == ","
COLON == ":"
LBRACE == "{"
RBRACE == "}"
LBRACKET == "["
RBRACKET == "]"

Position(line, column) == [Line |-> line, Column |-> column]

Token(type, literal, pos) == [Type |-> type, Literal |-> literal, Position |-> pos]

\* F of v: a value that is used several times is written, and computed, once
With(v, F(_)) == F(v)

\* the zero value of token.Token
ZeroToken == Token("", <<>>, Position(0, 0))

\* a slip that looks at the first letter only
LookupIdentByFirstLetter(ident) ==
    IF ident[1] = "t" THEN TRUE_T
    ELSE IF ident[1] = "f" THEN FALSE_T
    ELSE IF ident[1] = "n" THEN NULL_T
    ELSE ILLEGAL

LookupIdent(ident) ==
    IF ident = <<"t", "r", "u", "e">> THEN TRUE_T
    ELSE IF ident = <<"f", "a", "l", "s", "e">> THEN FALSE_T
    ELSE IF ident = <<"n", "u", "l", "l">> THEN NULL_T
    ELSE ILLEGAL

\* ------------------------------------------------------------------ lexer

\* the Lexer struct without its input, which never changes
ZeroLexer == [position |-> 0, readPosition |-> 0, ch |-> NUL, line |-> 1, column |-> 0]

\* a slip that lets the column run on after a newline
readCharOneLine(inp, l) ==
    LET c == IF l.readPosition >= Len(inp) THEN NUL ELSE At(inp, l.readPosition)
    IN [position |-> l.readPosition,
        readPosition |-> l.readPosition + 1,
        ch |-> c,
        line |-> IF c = "\n" THEN l.line + 1 ELSE l.line,
        column |-> l.column + 1]

\* a slip that reads the end of the input once only, and a brace after it
readCharEndsOnce(inp, l) ==
    LET c == IF l.readPosition > Len(inp) THEN "}"
             ELSE IF l.readPosition = Len(inp) THEN NUL
             ELSE At(inp, l.readPosition)
    IN [position |-> l.readPosition,
        readPosition |-> l.readPosition + 1,
        ch |-> c,
        line |-> IF c = "\n" THEN l.line + 1 ELSE l.line,
        column |-> IF c = "\n" THEN 0 ELSE l.column + 1]

\* a slip that stays where it is once the end of the input is read
readCharStaysAtEnd(inp, l) ==
    IF l.position >= Len(inp) /\ l.readPosition > Len(inp) THEN l
    ELSE LET c == IF l.readPosition >= Len(inp) THEN NUL ELSE At(inp, l.readPosition)
         IN [position |-> l.readPosition,
             readPosition |-> l.readPosition + 1,
             ch |-> c,
             line |-> IF c = "\n" THEN l.line + 1 ELSE l.line,
             column |-> IF c = "\n" THEN 0 ELSE l.column + 1]

\* a slip that leaves position where it was
readCharKeepsPosition(inp, l) ==
    LET c == IF l.readPosition >= Len(inp) THEN NUL ELSE At(inp, l.readPosition)
    IN [position |-> l.position,
        readPosition |-> l.readPosition + 1,
        ch |-> c,
        line |-> IF c = "\n" THEN l.line + 1 ELSE l.line,
        column |-> IF c = "\n" THEN 0 ELSE l.column + 1]

readChar(inp, l) ==
    LET c == IF l.readPosition >= Len(inp) THEN NUL ELSE At(inp, l.readPosition)
    IN [position |-> l.readPosition,
        readPosition |-> l.readPosition + 1,
        ch |-> c,
        line |-> IF c = "\n" THEN l.line + 1 ELSE l.line,
        column |-> IF c = "\n" THEN 0 ELSE l.column + 1]

peekChar(inp, l) ==
    IF l.readPosition >= Len(inp) THEN NUL ELSE At(inp, l.readPosition)

LexerNew(inp) == readChar(inp, ZeroLexer)

isLetter(ch) == ch \in Letters

isDigit(ch) == ch \in Digits

RECURSIVE skipWhitespace(_, _)
skipWhitespace(inp, l) ==
    IF l.ch \in {" ", "\t", "\n", "\r"}
    THEN skipWhitespace(inp, readChar(inp, l))
    ELSE l

newToken(tokenType, ch, pos) == Token(tokenType, <<ch>>, pos)

\* a slip that looks at one character before the quote only
backslashCountOfOne(inp, i) == IF i >= 0 /\ At(inp, i) = "\\" THEN 1 ELSE 0

\* the number of consecutive backslashes that end at 0-based index i
RECURSIVE backslashCount(_, _)
backslashCount(inp, i) ==
    IF i >= 0 /\ At(inp, i) = "\\" THEN 1 + backslashCount(inp, i - 1) ELSE 0

\* the ReadLoop of readString: l is the lexer before the loop's readChar
RECURSIVE readStringLoop(_, _, _, _)
readStringLoop(inp, l, start, startPos) ==
    With(readChar(inp, l), LAMBDA l1 :
        IF l1.ch = "\""
        THEN IF backslashCount(inp, l1.position - 1) % 2 = 0
             THEN [l |-> l1,
                   tok |-> Token(STRING_T, Slice(inp, start, l1.position), startPos)]
             ELSE readStringLoop(inp, l1, start, startPos)
        ELSE IF l1.ch \in ControlChars
             THEN [l |-> l1,
                   tok |-> Token(ILLEGAL, Slice(inp, start, l1.position), startPos)]
             ELSE readStringLoop(inp, l1, start, startPos))

readString(inp, l) ==
    readStringLoop(inp, l, l.position + 1, Position(l.line, l.column))

\* the first index j >= i (1-based) at which s has no digit
RECURSIVE digitsEnd(_, _)
digitsEnd(s, i) ==
    IF i <= Len(s) /\ s[i] \in Digits THEN digitsEnd(s, i + 1) ELSE i

\* a slip that asks for a last digit only
numberRegexLastDigit(s) == s[Len(s)] \in Digits

\* ^[-]?(([1-9][0-9]*)|0)(\.[0-9]+)?([eE][-+]?[0-9]+)?$
numberRegex(s) ==
    With(IF Len(s) >= 1 /\ s[1] = "-" THEN 2 ELSE 1, LAMBDA i1 :
    With(i1 <= Len(s) /\ s[i1] \in Digits, LAMBDA intOk :
    With(IF ~intOk THEN i1
         ELSE IF s[i1] = "0" THEN i1 + 1 ELSE digitsEnd(s, i1 + 1), LAMBDA i2 :
    With(i2 <= Len(s) /\ s[i2] = ".", LAMBDA hasFrac :
    With(digitsEnd(s, i2 + 1), LAMBDA fracEnd :
    With(IF hasFrac THEN fracEnd ELSE i2, LAMBDA i3 :
    With(i3 <= Len(s) /\ s[i3] \in {"e", "E"}, LAMBDA hasExp :
    With(IF hasExp /\ i3 + 1 <= Len(s) /\ s[i3 + 1] \in {"-", "+"}
         THEN i3 + 2 ELSE i3 + 1, LAMBDA i4 :
    With(digitsEnd(s, i4), LAMBDA expEnd :
        /\ intOk
        /\ hasFrac => fracEnd > i2 + 1
        /\ hasExp => expEnd > i4
        /\ (IF hasExp THEN expEnd ELSE i3) = Len(s) + 1)))))))))

RECURSIVE readNumberLoop(_, _, _, _)
readNumberLoop(inp, l, start, startPos) ==
    IF peekChar(inp, l) \in NumberChars
    THEN readNumberLoop(inp, readChar(inp, l), start, startPos)
    ELSE With(Slice(inp, start, l.position + 1), LAMBDA numberStr :
             [l |-> readChar(inp, l),
              tok |-> Token(IF numberRegex(numberStr) THEN NUMBER ELSE ILLEGAL,
                            numberStr, startPos)])

readNumber(inp, l) ==
    readNumberLoop(inp, l, l.position, Position(l.line, l.column))

RECURSIVE readIdentifierLoop(_, _)
readIdentifierLoop(inp, l) ==
    IF isLetter(l.ch) THEN readIdentifierLoop(inp, readChar(inp, l)) ELSE l

readIdentifier(inp, l) ==
    With(readIdentifierLoop(inp, l), LAMBDA l1 :
        [l |-> l1, ident |-> Slice(inp, l.position, l1.position)])

SingleCharType(ch) ==
    CASE ch = "{" -> LBRACE
      [] ch = "}" -> RBRACE
      [] ch = "[" -> LBRACKET
      [] ch = "]" -> RBRACKET
      [] ch = "," -> COMMA
      [] ch = ":" -> COLON

\* NextToken: the lexer after the call and the token returned
NextToken(inp, l0) ==
    With(skipWhitespace(inp, l0), LAMBDA l :
    With(Position(l.line, l.column), LAMBDA pos :
        IF l.ch \in {"{", "}", "[", "]", ",", ":"}
        THEN [l |-> readChar(inp, l), tok |-> newToken(SingleCharType(l.ch), l.ch, pos)]
        ELSE IF l.ch = "\""
        THEN With(readString(inp, l), LAMBDA r :
                 [l |-> readChar(inp, r.l), tok |-> r.tok])
        ELSE IF l.ch = NUL
        THEN [l |-> readChar(inp, l), tok |-> Token(EOF, <<>>, pos)]
        ELSE IF isLetter(l.ch)
        THEN With(readIdentifier(inp, l), LAMBDA r :
                 [l |-> r.l, tok |-> Token(LookupIdent(r.ident), r.ident, pos)])
        ELSE IF l.ch = "-" \/ isDigit(l.ch)
        THEN readNumber(inp, l)
        ELSE [l |-> readChar(inp, l), tok |-> newToken(ILLEGAL, l.ch, pos)]))

\* -------------------------------------------------------------------- ast

Object(tok, pairs) == [kind |-> "Object", Token |-> tok, Pairs |-> pairs]

ArrayLiteral(tok, elements) == [kind |-> "ArrayLiteral", Token |-> tok, Elements |-> elements]

StringLiteral(tok, value) == [kind |-> "StringLiteral", Token |-> tok, Value |-> value]

Boolean(tok, value) == [kind |-> "Boolean", Token |-> tok, Value |-> value]

Null(tok, value) == [kind |-> "Null", Token |-> tok, Value |-> value]

NumberLiteral(tok, value) == [kind |-> "NumberLiteral", Token |-> tok, Value |-> value]

\* Go's map[ast.Element]ast.Element is keyed by the identity of the key node,
\* so every insertion adds a pair: the model keeps the pairs as a sequence whose
\* index stands for that identity (the order of insertion).
Pair(key, value) == [key |-> key, value |-> value]

JSONFile(elements) == [Elements |-> elements]

\* a slip that renders the text without its quotes
StringLiteralStringBare(sl) == sl.Value

\* StringLiteral.String(): fmt.Sprintf("\"%s\"", sl.Value)
StringLiteralString(sl) == <<"\"">> \o sl.Value \o <<"\"">>

\* ----------------------------------------------------------------- parser

JSONErr(msg, pos) == [Msg |-> msg, Pos |-> pos]

\* the Parser struct: its lexer and its three tokens
ParserState(l, prv, cur, peek) ==
    [l |-> l, prvToken |-> prv, curToken |-> cur, peekToken |-> peek]

\* what a parseFn returns, with the parser it leaves behind
Ok(s, v) == [s |-> s, val |-> <<v>>, err |-> <<>>]

Fail(s, msg, pos) == [s |-> s, val |-> <<>>, err |-> <<JSONErr(msg, pos)>>]

nextToken(inp, s) ==
    With(NextToken(inp, s.l), LAMBDA r :
        ParserState(r.l, s.curToken, s.peekToken, r.tok))

curTokenIs(s, t) == s.curToken.Type = t

peekTokenIs(s, t) == s.peekToken.Type = t

ParserNew(inp) ==
    nextToken(inp, nextToken(inp,
        ParserState(LexerNew(inp), ZeroToken, ZeroToken, ZeroToken)))

\* the fixed text of the error formats, and '%v' of a token type
TokenTypes ==
    {ILLEGAL, EOF, STRING_T, NUMBER, TRUE_T, FALSE_T, NULL_T,
     COMMA, COLON, LBRACE, RBRACE, LBRACKET, RBRACKET, ""}

TypeString == [t \in TokenTypes |-> Str(t)]

InsteadText == Str("' instead\n")

ExpectedText == Str("Expected '")

GotText == Str("', got '")

ExpectedValueText == Str("Expected 'STRING', 'NUMBER', 'NULL', 'TRUE', 'FALSE', '{', '[', got '")

ExpectedValueOrEndText ==
    Str("Expected 'STRING', 'NUMBER', 'NULL', 'TRUE', 'FALSE', '{', '[', ']', got '")

UnexpectedText == Str("Unexpected token found '")

QuoteNewlineText == Str("'\n")

InvalidUnicodeText == Str("Invalid unicode escape sequence\n")

InvalidEscapeText == Str("Invalid escape sequence\n")

FailedParsingText == Str("Failed parsing \"")

AsAFloatText == Str("\" as a float\n")

DuplicateText == Str("Duplicate JSON property '")

ExpectedStringText == Str("Expected 'STRING', got '")

ExpectedStringOrBraceText == Str("Expected 'STRING', '}', got '")

ExpectedArrayValueText ==
    Str("Expected 'STRING', 'NUMBER', 'TRUE', 'FALSE', 'NULL'. got '")

ExpectedSeparatorText == Str("Expected ',', ']'. got '")

ExpectedEOFText == Str("Expected 'EOF', got '")

ExpectedOpenText == Str("Expected '{' or '[', got '")

\* fmt.Sprintf("Expected '%s', got '%v' instead\n", t, p.peekToken.Type)
peekError(s, t) ==
    Fail(s, ExpectedText \o TypeString[t] \o GotText
            \o TypeString[s.peekToken.Type] \o InsteadText,
         s.peekToken.Position)

expectPeek(inp, s, t) ==
    IF peekTokenIs(s, t)
    THEN [s |-> nextToken(inp, s), val |-> <<>>, err |-> <<>>]
    ELSE peekError(s, t)

\* a slip that chooses the message by the token itself
noParseFnErrorByCurrent(s, t) ==
    LET msg ==
          IF s.curToken.Type \in {COLON, COMMA}
          THEN ExpectedValueText \o TypeString[t.Type] \o InsteadText
          ELSE IF s.curToken.Type = LBRACKET
          THEN ExpectedValueOrEndText \o TypeString[t.Type] \o InsteadText
          ELSE UnexpectedText \o TypeString[t.Type] \o QuoteNewlineText
    IN Fail(s, msg, s.curToken.Position)

\* a slip that reports the position of the token after the one with no function
noParseFnErrorAtPeek(s, t) ==
    LET msg ==
          IF s.prvToken.Type \in {COLON, COMMA}
          THEN ExpectedValueText \o TypeString[t.Type] \o InsteadText
          ELSE IF s.prvToken.Type = LBRACKET
          THEN ExpectedValueOrEndText \o TypeString[t.Type] \o InsteadText
          ELSE UnexpectedText \o TypeString[t.Type] \o QuoteNewlineText
    IN Fail(s, msg, s.peekToken.Position)

noParseFnError(s, t) ==
    LET msg ==
          IF s.prvToken.Type \in {COLON, COMMA}
          THEN ExpectedValueText \o TypeString[t.Type] \o InsteadText
          ELSE IF s.prvToken.Type = LBRACKET
          THEN ExpectedValueOrEndText \o TypeString[t.Type] \o InsteadText
          ELSE UnexpectedText \o TypeString[t.Type] \o QuoteNewlineText
    IN Fail(s, msg, s.curToken.Position)

isHexDigit(r) == r \in HexDigits

\* a slip that counts the characters only
isValidHexSequenceAnyFour(seq) == Len(seq) = 4

isValidHexSequence(seq) ==
    Len(seq) = 4 /\ \A i \in 1..Len(seq) : isHexDigit(seq[i])

\* the length of the escape that starts str, or the message of the error
checkEscapedSequence(str) ==
    IF At(str, 1) \in {"\"", "\\", "/", "b", "f", "n", "r", "t"}
    THEN [escLen |-> 2, msg |-> <<>>]
    ELSE IF At(str, 1) = "u"
    THEN IF Len(str) >= 6 /\ isValidHexSequence(Slice(str, 2, 6))
         THEN [escLen |-> 6, msg |-> <<>>]
         ELSE [escLen |-> 0, msg |-> <<InvalidUnicodeText>>]
    ELSE [escLen |-> 0, msg |-> <<InvalidEscapeText>>]

\* the loop of parseString from index i (0-based): the message of its error, if any
RECURSIVE parseStringLoop(_, _)
parseStringLoop(str, i) ==
    IF i >= Len(str) THEN <<>>
    ELSE IF At(str, i) = "\\" /\ i + 1 < Len(str)
    THEN With(checkEscapedSequence(Slice(str, i, Len(str))), LAMBDA c :
             IF c.escLen > 0 /\ c.msg = <<>>
             THEN parseStringLoop(str, i + c.escLen)
             ELSE c.msg)
    ELSE parseStringLoop(str, i + 1)

\* a slip that drops the backslashes from the value
parseStringUnescaped(s) ==
    With(parseStringLoop(s.curToken.Literal, 0), LAMBDA m :
        IF m = <<>>
        THEN Ok(s, StringLiteral(s.curToken,
                                 SelectSeq(s.curToken.Literal, LAMBDA c : c # "\\")))
        ELSE Fail(s, m[1], s.curToken.Position))

parseString(s) ==
    With(parseStringLoop(s.curToken.Literal, 0), LAMBDA m :
        IF m = <<>>
        THEN Ok(s, StringLiteral(s.curToken, s.curToken.Literal))
        ELSE Fail(s, m[1], s.curToken.Position))

parseBoolean(s) == Ok(s, Boolean(s.curToken, curTokenIs(s, TRUE_T)))

parseNull(s) == Ok(s, Null(s.curToken, s.curToken.Literal))

\* ------------------------------------------------------ strconv.ParseFloat

DigitVal(c) ==
    CASE c = "0" -> 0 [] c = "1" -> 1 [] c = "2" -> 2 [] c = "3" -> 3 [] c = "4" -> 4
      [] c = "5" -> 5 [] c = "6" -> 6 [] c = "7" -> 7 [] c = "8" -> 8 [] c = "9" -> 9

RECURSIVE ToInt(_)
ToInt(ds) ==
    IF ds = <<>> THEN 0 ELSE 10 * ToInt(SubSeq(ds, 1, Len(ds) - 1)) + DigitVal(ds[Len(ds)])

RECURSIVE NumDigits(_)
NumDigits(m) == IF m < 10 THEN 1 ELSE 1 + NumDigits(m \div 10)

RECURSIVE Pow10(_)
Pow10(n) == IF n = 0 THEN 1 ELSE 10 * Pow10(n - 1)

\* a float64 as the decimal (-1)^neg * m * 10^e, m without trailing zeros
RECURSIVE Normalize(_, _, _)
Normalize(neg, m, e) ==
    IF m = 0 THEN [neg |-> neg, m |-> 0, e |-> 0]
    ELSE IF m % 10 = 0 THEN Normalize(neg, m \div 10, e + 1)
    ELSE [neg |-> neg, m |-> m, e |-> e]

\* the first nine significant digits of m (m has at most nine)
Lead9(m) == m * Pow10(9 - NumDigits(m))

\* strconv.ParseFloat(lit, 64) on a literal of the number grammar: the value,
\* and whether it reports a range error (the magnitude exceeds the largest
\* float64, 1.797693134862315708e308); a magnitude below the smallest float64
\* is 0 and no error.  Exact for literals of at most nine significant digits.
ParseFloat(lit) ==
    With(lit[1] = "-", LAMBDA neg :
    With(IF neg THEN 2 ELSE 1, LAMBDA i1 :
    With(digitsEnd(lit, i1), LAMBDA i2 :
    With(i2 <= Len(lit) /\ lit[i2] = ".", LAMBDA hasFrac :
    With(IF hasFrac THEN digitsEnd(lit, i2 + 1) ELSE i2, LAMBDA i3 :
    With(IF hasFrac THEN SubSeq(lit, i2 + 1, i3 - 1) ELSE <<>>, LAMBDA frac :
    With(i3 <= Len(lit), LAMBDA hasExp :
    With(hasExp /\ lit[i3 + 1] = "-", LAMBDA expNeg :
    With(IF hasExp /\ lit[i3 + 1] \in {"-", "+"} THEN i3 + 2 ELSE i3 + 1, LAMBDA i4 :
    With(IF hasExp THEN ToInt(SubSeq(lit, i4, Len(lit))) ELSE 0, LAMBDA ex :
    With(Normalize(neg, ToInt(SubSeq(lit, i1, i2 - 1) \o frac),
                   (IF expNeg THEN 0 - ex ELSE ex) - Len(frac)), LAMBDA v :
    With(NumDigits(v.m) + v.e - 1, LAMBDA d :
        IF v.m # 0 /\ (d > 308 \/ (d = 308 /\ Lead9(v.m) >= 179769314))
        THEN [value |-> v, err |-> TRUE]
        ELSE IF v.m # 0 /\ d < -324
        THEN [value |-> [neg |-> neg, m |-> 0, e |-> 0], err |-> FALSE]
        ELSE [value |-> v, err |-> FALSE]))))))))))))

\* strconv's %q of a literal of the number grammar adds the quotes only
parseNumber(s) ==
    With(ParseFloat(s.curToken.Literal), LAMBDA f :
        IF f.err
        THEN Fail(s, FailedParsingText \o s.curToken.Literal \o AsAFloatText,
                  s.curToken.Position)
        ELSE Ok(s, NumberLiteral(s.curToken, f.value)))

\* ------------------------------------------------------- parser, recursive

\* a slip that compares with the pair inserted last only
isDuplicatePropertyOfLast(propMap, prop) ==
    /\ propMap # <<>>
    /\ StringLiteralString(prop) = StringLiteralString(propMap[Len(propMap)].key)

isDuplicateProperty(propMap, prop) ==
    \E i \in 1..Len(propMap) :
        StringLiteralString(prop) = StringLiteralString(propMap[i].key)

\* a slip that reports the position of the repeated key
duplicateErrorAtKey(s, prop) ==
    Fail(s, DuplicateText \o StringLiteralString(prop) \o QuoteNewlineText,
         prop.Token.Position)

\* the error parseObject returns for a repeated key: s is the parser after
\* expectPeek(COLON), prop the key node
duplicateError(s, prop) ==
    Fail(s, DuplicateText \o StringLiteralString(prop) \o QuoteNewlineText,
         s.curToken.Position)

RECURSIVE parseValue(_, _)
RECURSIVE parseObject(_, _)
RECURSIVE parseObjectLoop(_, _, _)
RECURSIVE parseArray(_, _)
RECURSIVE parseArrayList(_, _, _)
RECURSIVE parseArrayLoop(_, _, _, _)

\* parseFnMap[p.curToken.Type], and noParseFnError when there is none
parseValue(inp, s) ==
    CASE s.curToken.Type = STRING_T -> parseString(s)
      [] s.curToken.Type \in {TRUE_T, FALSE_T} -> parseBoolean(s)
      [] s.curToken.Type = NULL_T -> parseNull(s)
      [] s.curToken.Type = NUMBER -> parseNumber(s)
      [] s.curToken.Type = LBRACKET -> parseArray(inp, s)
      [] s.curToken.Type = LBRACE -> parseObject(inp, s)
      [] OTHER -> noParseFnError(s, s.curToken)

\* the for loop of parseObject, with the pairs inserted so far
\* a slip that looks for a duplicate after it has parsed the value
parseObjectLoopValueFirst(inp, s0, pairs) ==
    IF peekTokenIs(s0, RBRACE) THEN [s |-> s0, val |-> <<pairs>>, err |-> <<>>]
    ELSE
    With(parseValue(inp, nextToken(inp, s0)), LAMBDA prop :
        IF prop.err # <<>> THEN prop
        ELSE
        With(expectPeek(inp, prop.s, COLON), LAMBDA colon :
            IF colon.err # <<>> THEN colon
            ELSE
            With(parseValue(inp, nextToken(inp, colon.s)), LAMBDA v :
                IF v.err # <<>> THEN v
                ELSE IF isDuplicateProperty(pairs, prop.val[1])
                THEN duplicateError(colon.s, prop.val[1])
                ELSE
                With(expectPeek(inp, v.s, COMMA), LAMBDA comma :
                    IF ~peekTokenIs(comma.s, RBRACE) /\ comma.err # <<>> THEN comma
                    ELSE IF curTokenIs(comma.s, COMMA) /\ ~peekTokenIs(comma.s, STRING_T)
                    THEN Fail(comma.s,
                              ExpectedStringText \o TypeString[comma.s.peekToken.Type]
                                  \o InsteadText,
                              comma.s.peekToken.Position)
                    ELSE parseObjectLoop(inp, comma.s,
                                         Append(pairs, Pair(prop.val[1], v.val[1])))))))

parseObjectLoop(inp, s0, pairs) ==
    IF peekTokenIs(s0, RBRACE) THEN [s |-> s0, val |-> <<pairs>>, err |-> <<>>]
    ELSE
    With(parseValue(inp, nextToken(inp, s0)), LAMBDA prop :
        IF prop.err # <<>> THEN prop
        ELSE
        With(expectPeek(inp, prop.s, COLON), LAMBDA colon :
            IF colon.err # <<>> THEN colon
            ELSE IF isDuplicateProperty(pairs, prop.val[1])
            THEN duplicateError(colon.s, prop.val[1])
            ELSE
            With(parseValue(inp, nextToken(inp, colon.s)), LAMBDA v :
                IF v.err # <<>> THEN v
                ELSE
                With(expectPeek(inp, v.s, COMMA), LAMBDA comma :
                    IF ~peekTokenIs(comma.s, RBRACE) /\ comma.err # <<>> THEN comma
                    ELSE IF curTokenIs(comma.s, COMMA) /\ ~peekTokenIs(comma.s, STRING_T)
                    THEN Fail(comma.s,
                              ExpectedStringText \o TypeString[comma.s.peekToken.Type]
                                  \o InsteadText,
                              comma.s.peekToken.Position)
                    ELSE parseObjectLoop(inp, comma.s,
                                         Append(pairs, Pair(prop.val[1], v.val[1])))))))

\* a slip that reports the brace and not the token after it
parseObjectAtBrace(inp, s) ==
    IF ~peekTokenIs(s, STRING_T) /\ ~peekTokenIs(s, RBRACE)
    THEN Fail(s, ExpectedStringOrBraceText \o TypeString[s.peekToken.Type]
                     \o InsteadText,
              s.curToken.Position)
    ELSE With(parseObjectLoop(inp, s, <<>>), LAMBDA loop :
             IF loop.err # <<>> THEN loop
             ELSE With(expectPeek(inp, loop.s, RBRACE), LAMBDA brace :
                      IF brace.err # <<>> THEN brace
                      ELSE Ok(brace.s, Object(s.curToken, loop.val[1]))))

\* a slip that enters the loop without a look at the token after the brace
parseObjectUnchecked(inp, s) ==
    With(parseObjectLoop(inp, s, <<>>), LAMBDA loop :
        IF loop.err # <<>> THEN loop
        ELSE With(expectPeek(inp, loop.s, RBRACE), LAMBDA brace :
                 IF brace.err # <<>> THEN brace
                 ELSE Ok(brace.s, Object(s.curToken, loop.val[1]))))

parseObject(inp, s) ==
    IF ~peekTokenIs(s, STRING_T) /\ ~peekTokenIs(s, RBRACE)
    THEN Fail(s, ExpectedStringOrBraceText \o TypeString[s.peekToken.Type]
                     \o InsteadText,
              s.peekToken.Position)
    ELSE With(parseObjectLoop(inp, s, <<>>), LAMBDA loop :
             IF loop.err # <<>> THEN loop
             ELSE With(expectPeek(inp, loop.s, RBRACE), LAMBDA brace :
                      IF brace.err # <<>> THEN brace
                      ELSE Ok(brace.s, Object(s.curToken, loop.val[1]))))

\* a slip that keeps only the value just parsed
consumeAndParseValueKeepsLast(inp, s, list) ==
    With(parseValue(inp, nextToken(inp, s)), LAMBDA v :
        IF v.err # <<>> THEN v
        ELSE [s |-> v.s, val |-> <<<<v.val[1]>>>>, err |-> <<>>])

consumeAndParseValue(inp, s, list) ==
    With(parseValue(inp, nextToken(inp, s)), LAMBDA v :
        IF v.err # <<>> THEN v
        ELSE [s |-> v.s, val |-> <<Append(list, v.val[1])>>, err |-> <<>>])

\* the for loop of parseArrayList and what follows it
\* a slip that does not look for the end of the list after a comma
parseArrayLoopNoEndCheck(inp, s0, end, list) ==
    IF peekTokenIs(s0, COMMA)
    THEN With(nextToken(inp, s0), LAMBDA s1 :
             With(consumeAndParseValue(inp, s1, list), LAMBDA c :
                 IF c.err # <<>> THEN c
                 ELSE parseArrayLoop(inp, c.s, end, c.val[1])))
    ELSE IF ~peekTokenIs(s0, end) /\ ~curTokenIs(s0, COMMA)
    THEN Fail(s0, ExpectedSeparatorText \o TypeString[s0.peekToken.Type]
                      \o InsteadText,
              s0.peekToken.Position)
    ELSE [s |-> nextToken(inp, s0), val |-> <<list>>, err |-> <<>>]

\* a slip that reports the last token of the value and not the token after it
parseArrayLoopAtCurrent(inp, s0, end, list) ==
    IF peekTokenIs(s0, COMMA)
    THEN With(nextToken(inp, s0), LAMBDA s1 :
             IF peekTokenIs(s1, end)
             THEN Fail(s1,
                       ExpectedArrayValueText \o TypeString[s1.peekToken.Type]
                           \o InsteadText,
                       s1.peekToken.Position)
             ELSE With(consumeAndParseValue(inp, s1, list), LAMBDA c :
                      IF c.err # <<>> THEN c
                      ELSE parseArrayLoop(inp, c.s, end, c.val[1])))
    ELSE IF ~peekTokenIs(s0, end) /\ ~curTokenIs(s0, COMMA)
    THEN Fail(s0, ExpectedSeparatorText \o TypeString[s0.curToken.Type]
                      \o InsteadText,
              s0.curToken.Position)
    ELSE [s |-> nextToken(inp, s0), val |-> <<list>>, err |-> <<>>]

parseArrayLoop(inp, s0, end, list) ==
    IF peekTokenIs(s0, COMMA)
    THEN With(nextToken(inp, s0), LAMBDA s1 :
             IF peekTokenIs(s1, end)
             THEN Fail(s1,
                       ExpectedArrayValueText \o TypeString[s1.peekToken.Type]
                           \o InsteadText,
                       s1.peekToken.Position)
             ELSE With(consumeAndParseValue(inp, s1, list), LAMBDA c :
                      IF c.err # <<>> THEN c
                      ELSE parseArrayLoop(inp, c.s, end, c.val[1])))
    ELSE IF ~peekTokenIs(s0, end) /\ ~curTokenIs(s0, COMMA)
    THEN Fail(s0, ExpectedSeparatorText \o TypeString[s0.peekToken.Type]
                      \o InsteadText,
              s0.peekToken.Position)
    ELSE [s |-> nextToken(inp, s0), val |-> <<list>>, err |-> <<>>]

parseArrayList(inp, s, end) ==
    IF peekTokenIs(s, end)
    THEN [s |-> nextToken(inp, s), val |-> <<<<>>>>, err |-> <<>>]
    ELSE With(consumeAndParseValue(inp, s, <<>>), LAMBDA c :
             IF c.err # <<>> THEN c
             ELSE parseArrayLoop(inp, c.s, end, c.val[1]))

parseArray(inp, s) ==
    With(parseArrayList(inp, s, RBRACKET), LAMBDA r :
        IF r.err # <<>> THEN r
        ELSE Ok(r.s, ArrayLiteral(s.curToken, r.val[1])))

\* a slip that reports the offending token's own position
parseElementAtCurrent(inp, s) ==
    CASE s.curToken.Type = LBRACE -> parseObject(inp, s)
      [] s.curToken.Type = LBRACKET -> parseArray(inp, s)
      [] OTHER -> Fail(s, ExpectedEOFText \o TypeString[s.curToken.Type]
                              \o InsteadText,
                       s.curToken.Position)

parseElement(inp, s) ==
    CASE s.curToken.Type = LBRACE -> parseObject(inp, s)
      [] s.curToken.Type = LBRACKET -> parseArray(inp, s)
      [] OTHER -> Fail(s, ExpectedEOFText \o TypeString[s.curToken.Type]
                              \o InsteadText,
                       s.peekToken.Position)

\* ------------------------------------------------------- ast.ToInterface

\* an interface{} value: its dynamic type and the value of that type
GoMap(f) == [type |-> "map", v |-> f]

GoSlice(elements) == [type |-> "slice", v |-> elements]

GoString(s) == [type |-> "string", v |-> s]

GoFloat64(f) == [type |-> "float64", v |-> f]

GoBool(b) == [type |-> "bool", v |-> b]

GoNil == [type |-> "nil", v |-> <<>>]

\* Object.ToInterface writes out[key.Value] once per pair, in the order the map
\* is ranged over: a key that several pairs have keeps the value of any of them
RECURSIVE ToInterface(_)
ToInterface(n) ==
    CASE n.kind = "Object" ->
           LET keyed == {i \in 1..Len(n.Pairs) : n.Pairs[i].key.kind = "StringLiteral"}
           IN GoMap([k \in {n.Pairs[i].key.Value : i \in keyed} |->
                        ToInterface(n.Pairs[CHOOSE i \in keyed : n.Pairs[i].key.Value = k].value)])
      [] n.kind = "ArrayLiteral" ->
           GoSlice([i \in 1..Len(n.Elements) |-> ToInterface(n.Elements[i])])
      [] n.kind = "StringLiteral" -> GoString(n.Value)
      [] n.kind = "NumberLiteral" -> GoFloat64(n.Value)
      [] n.kind = "Boolean" -> GoBool(n.Value)
      [] n.kind = "Null" -> GoNil

\* a slip that projects the last top-level element
JSONFileToInterfaceLast(file) == ToInterface(file.Elements[Len(file.Elements)])

JSONFileToInterface(file) == ToInterface(file.Elements[1])

\* ------------------------------------------------------ json.MarshalIndent

\* printable ASCII bytes in the order of their values
ByteOrder ==
    Str(" !\"#$%&'()*+,-./0123456789:;<=>?@ABCDEFGHIJKLMNOPQRSTUVWXYZ[\\]^_abcdefghijklmnopqrstuvwxyz{|}~")

ByteRank(c) == CHOOSE i \in 1..Len(ByteOrder) : ByteOrder[i] = c

\* a < b as Go compares strings
RECURSIVE StringLess(_, _)
StringLess(a, b) ==
    IF b = <<>> THEN FALSE
    ELSE IF a = <<>> THEN TRUE
    ELSE IF a[1] = b[1] THEN StringLess(Tail(a), Tail(b))
    ELSE ByteRank(a[1]) < ByteRank(b[1])

RECURSIVE SortedKeys(_)
SortedKeys(keys) ==
    IF keys = {} THEN <<>>
    ELSE LET least == CHOOSE k \in keys : \A o \in keys \ {k} : StringLess(k, o)
         IN <<least>> \o SortedKeys(keys \ {least})

RECURSIVE IntDigits(_)
IntDigits(n) ==
    (IF n < 10 THEN <<>> ELSE IntDigits(n \div 10)) \o <<SubSeq("0123456789", (n % 10) + 1, (n % 10) + 1)>>

RECURSIVE Zeros(_)
Zeros(n) == IF n <= 0 THEN <<>> ELSE <<"0">> \o Zeros(n - 1)

\* encoding/json's float64: the shortest decimal that gives the value back, as
\* digits ('f') unless the magnitude is below 1e-6 or at least 1e21 ('e', with
\* e-0X cleaned up to e-X)
FormatFloat(f) ==
    LET ds == IntDigits(f.m)
        k == Len(ds)
        d == k + f.e - 1
        sign == IF f.neg THEN <<"-">> ELSE <<>>
        ex == IF d < 0 THEN 0 - d ELSE d
    IN IF f.m = 0 THEN sign \o <<"0">>
       ELSE IF d < -6 \/ d >= 21
       THEN sign \o <<ds[1]>> \o (IF k > 1 THEN <<".">> \o SubSeq(ds, 2, k) ELSE <<>>)
                \o <<"e">> \o (IF d < 0 THEN <<"-">> ELSE <<"+">>)
                \o (IF ex < 10 /\ d >= 0 THEN <<"0">> ELSE <<>>) \o IntDigits(ex)
       ELSE IF f.e >= 0 THEN sign \o ds \o Zeros(f.e)
       ELSE IF k + f.e > 0
       THEN sign \o SubSeq(ds, 1, k + f.e) \o <<".">> \o SubSeq(ds, k + f.e + 1, k)
       ELSE sign \o <<"0", ".">> \o Zeros(0 - f.e - k) \o ds

\* encoding/json's string, for printable ASCII
RECURSIVE EscapeString(_)
EscapeString(s) ==
    IF s = <<>> THEN <<>>
    ELSE (CASE s[1] = "\"" -> <<"\\", "\"">>
            [] s[1] = "\\" -> <<"\\", "\\">>
            [] s[1] = "<" -> Str("\\u003c")
            [] s[1] = ">" -> Str("\\u003e")
            [] s[1] = "&" -> Str("\\u0026")
            [] OTHER -> <<s[1]>>) \o EscapeString(Tail(s))

EncodeString(s) == <<"\"">> \o EscapeString(s) \o <<"\"">>

RECURSIVE Indent(_)
Indent(depth) == IF depth = 0 THEN <<>> ELSE <<" ", " ">> \o Indent(depth - 1)

\* json.MarshalIndent(g, "", "  ") below depth levels of nesting
RECURSIVE Marshal(_, _)
RECURSIVE MarshalElements(_, _, _)
RECURSIVE MarshalEntries(_, _, _, _)
Marshal(g, depth) ==
    CASE g.type = "nil" -> Str("null")
      [] g.type = "bool" -> IF g.v THEN Str("true") ELSE Str("false")
      [] g.type = "float64" -> FormatFloat(g.v)
      [] g.type = "string" -> EncodeString(g.v)
      [] g.type = "slice" ->
           IF g.v = <<>> THEN Str("[]")
           ELSE <<"[">> \o MarshalElements(g.v, 1, depth + 1)
                    \o <<"\n">> \o Indent(depth) \o <<"]">>
      [] g.type = "map" ->
           IF DOMAIN g.v = {} THEN Str("{}")
           ELSE <<"{">> \o MarshalEntries(g.v, SortedKeys(DOMAIN g.v), 1, depth + 1)
                    \o <<"\n">> \o Indent(depth) \o <<"}">>

MarshalElements(elements, i, depth) ==
    IF i > Len(elements) THEN <<>>
    ELSE <<"\n">> \o Indent(depth) \o Marshal(elements[i], depth)
             \o (IF i < Len(elements) THEN <<",">> ELSE <<>>)
             \o MarshalElements(elements, i + 1, depth)

MarshalEntries(f, keys, i, depth) ==
    IF i > Len(keys) THEN <<>>
    ELSE <<"\n">> \o Indent(depth) \o EncodeString(keys[i]) \o <<":", " ">>
             \o Marshal(f[keys[i]], depth)
             \o (IF i < Len(keys) THEN <<",">> ELSE <<>>)
             \o MarshalEntries(f, keys, i + 1, depth)

MarshalIndent(g) == Marshal(g, 0)

\* ParseFile as one function of the input: what the actions above return
RECURSIVE ParseFileLoop(_, _, _)
ParseFileLoop(inp, s, elements) ==
    IF curTokenIs(s, EOF) THEN [doc |-> <<JSONFile(elements)>>, err |-> <<>>]
    ELSE With(parseElement(inp, s), LAMBDA r :
             IF r.err # <<>> THEN [doc |-> <<>>, err |-> r.err]
             ELSE ParseFileLoop(inp, nextToken(inp, r.s), Append(elements, r.val[1])))

ParseFile(inp) ==
    With(ParserNew(inp), LAMBDA s :
        IF ~curTokenIs(s, LBRACE) /\ ~curTokenIs(s, LBRACKET)
        THEN [doc |-> <<>>,
              err |-> <<JSONErr(ExpectedOpenText \o TypeString[s.curToken.Type]
                                   \o InsteadText,
                               s.curToken.Position)>>]
        ELSE ParseFileLoop(inp, s, <<>>))

\* ------------------------------------------------------------------ inputs

\* every sequence of at most n members of alphabet
RECURSIVE Strings(_, _)
Strings(alphabet, n) ==
    IF n = 0 THEN {<<>>}
    ELSE With(Strings(alphabet, n - 1), LAMBDA shorter :
             shorter \cup {s \o <<c>> : s \in shorter, c \in alphabet})

\* every concatenation of at most n members of words
RECURSIVE Concatenations(_, _)
Concatenations(words, n) ==
    IF n = 0 THEN {<<>>}
    ELSE With(Concatenations(words, n - 1), LAMBDA shorter :
             shorter \cup {s \o w : s \in shorter, w \in words})

\* the longest input drawn lexeme by lexeme
MaxLexemes == 3

\* the longest input drawn chunk by chunk
MaxChunks == 6

Lexemes ==
    {Str("{"), Str("}"), Str("["), Str("]"), Str(","), Str(":"),
     Str("\"a\""), Str("1"), Str("true"), Str("null"),
     Str(" "), Str("\n"), Str("*")}

\* every concatenation of at most n lexemes
RECURSIVE LexemeStrings(_)
LexemeStrings(n) ==
    IF n = 0 THEN {<<>>}
    ELSE LET shorter == LexemeStrings(n - 1)
         IN shorter \cup {s \o x : s \in shorter, x \in Lexemes}

Chunks ==
    {Str("{"), Str("}"), Str("["), Str("]"), Str(","),
     Str("\"a\":"), Str("\"\\u0061\":"), Str("\"a\""), Str("1")}

GotEOFText == Str("got 'EOF' instead\n")

EndsWith(s, tail) ==
    Len(s) >= Len(tail) /\ SubSeq(s, Len(s) - Len(tail) + 1, Len(s)) = tail

\* ParseFile read the input to its end: it accepted it, or failed at the EOF token
ReadToEnd(inp) ==
    With(ParseFile(inp), LAMBDA r :
        r.err = <<>> \/ EndsWith(r.err[1].Msg, GotEOFText))

\* the concatenations of at most n chunks (all), and of exactly n chunks (last),
\* of which ParseFile reads every proper prefix to its end; a prefix it fails on
\* earlier fails the same way whatever follows it
RECURSIVE ChunkStrings(_)
ChunkStrings(n) ==
    IF n = 0 THEN [all |-> {<<>>}, last |-> {<<>>}]
    ELSE With(ChunkStrings(n - 1), LAMBDA shorter :
         With({s \o x : s \in {y \in shorter.last : ReadToEnd(y)}, x \in Chunks},
              LAMBDA longer :
                  [all |-> shorter.all \cup longer, last |-> longer]))

\* inputs of the repository's tests and of the specification's scenarios
Scenarios ==
    {Str("[1, 2, 3]"),
     Str("{\"key1\": \"value1\", \"key2\": \"value2\", \"key1\": \"value3\"}"),
     Str("[\"value1\"],"),
     Str("{\"key1\": 1.23e4}"),
     Str("{\"key\": \"value1\"} \"misplaced quoted value\""),
     Str("[\"value\", 1, true, null, -0.2e2, {\"key\": 123}]"),
     Str("{\"k\":1,\"k\":2}"),
     Str("[{\"a\":1},{\"a\":1}]"),
     Str("{\"a\":{\"a\":1}}"),
     Str("{\"a\":1,\"\\u0061\":1}"),
     Str("{}{}"),
     Str("[false, true]"),
     Str("[\"a\\n\"]"),
     Str("{\"key\\u00FZ\": 1}"),
     Str("{\"key\\u00F\": 1}"),
     Str("{\"key\\q\": 1}"),
     Str("{\n  \"key1\": \"value\",\n  \"key2\": -123,\n  \"key3\": [\"value\", 1, true, null, -0.2e2],\n  \"key4\": {\n    \"key4\": null\n  }\n}\n"),
     Str("{\"k\\n\": \"a\\\"b\", \"n\": [0.5, 1e21, -0]}"),
     Str("{{}}"),
     Str("{\"a\":1"),
     Str("[1, [2, {\"a\": [3] 4}]]"),
     Str("[1, {\"a\": {\"b\": 2} \"c\": 3}]"),
     Str("[\"a\\q\" 1]"),
     Str("{\"a\": 1e999 2}"),
     Str("{\"a\":1,\"a\":,}"),
     Str("{\"a\":1,\"a\" 2}"),
     Str("{\"a\":1,\"a\\q\" 2}"),
     Str("[{\"k\":{\"a\":1,\"b\":2,\"a\":}}]"),
     Str("{\"a\\q\":1,\"a\\q\":2}"),
     Str("[1e400]"),
     Str("[1e308, 1.7e308, 1e-400]"),
     Str("[{\"a\": -2e308}]"),
     Str("[123456789e300]"),
     Str("{\"a\":[1,{\"a\":1,}]}"),
     Str("[[1,]]"),
     Str("{\"a\":1,\"a\":2,}"),
     Str("{key1: 0}"),
     Str("{\"a\\q\": {1}}"),
     Str("[1, {\"a\": {true: 1}}]")}

\* the longest string body drawn escape by escape
MaxEscapes == 3

EscapeChunks ==
    {Str("\\n"), Str("\\\""), Str("\\\\"), Str("\\/"), Str("\\q"), Str("\\u"),
     Str("\\u00e9"), Str("00"), Str("e9"), Str("G"), Str("a")}

\* a string of escapes as the one element of an array, and as the one key of
\* an object
EscapeInputs ==
    {Str("[\"") \o b \o Str("\"]") : b \in Concatenations(EscapeChunks, MaxEscapes)}
        \cup {Str("{\"") \o b \o Str("\":1}") :
                 b \in Concatenations(EscapeChunks, MaxEscapes - 1)}

\* the longest input drawn lexeme by lexeme before a NUL byte
MaxPrefix == 2

\* what follows the NUL byte
Suffixes == {<<>>, Str(" ]"), Str("\n{}"), Str("\"a"), <<NUL>> \o Str("*")}

\* inputs that end where a token would start, after a newline, and inside a
\* string
Prefixes ==
    {Str("[1, 2, 3]"), Str("{\"a\": [true, {\"b\": null}]}"),
     Str("[\"a"), Str("{\"a\": \"b"), Str("[1,\n"), Str("{\"a\": 1}\n*")}

\* an input, a NUL byte and more bytes
NulInputs ==
    {u \o <<NUL>> \o Str(" ]") : u \in LexemeStrings(MaxPrefix)}
        \cup {u \o <<NUL>> \o v : u \in Prefixes, v \in Suffixes}

Inputs ==
    Scenarios \cup LexemeStrings(MaxLexemes)
        \cup ChunkStrings(MaxChunks).all \cup EscapeInputs \cup NulInputs

\* ------------------------------------------------------------------- state

VARIABLES
    input,      \* Lexer.input
    lexer,      \* the other fields of the Lexer
    prvToken,   \* Parser.prvToken
    curToken,   \* Parser.curToken
    peekToken,  \* Parser.peekToken
    pc,         \* where ParseFile is
    jf,         \* ParseFile's jf.Elements
    ret,        \* what ParseFile returned: [doc, err], each nil or a value
    iface,      \* main: what parsedJSON.ToInterface() returned, once it has
    out,        \* main: the text json.MarshalIndent returned, once it has
    tok         \* the token Lexer.NextToken returned to a caller other than the parser

vars == <<input, lexer, prvToken, curToken, peekToken, pc, jf, ret, iface, out, tok>>

Parser == ParserState(lexer, prvToken, curToken, peekToken)

SetParser(s) ==
    /\ lexer' = s.l
    /\ prvToken' = s.prvToken
    /\ curToken' = s.curToken
    /\ peekToken' = s.peekToken

NoReturn == [doc |-> <<>>, err |-> <<>>]

\* lexer.New and parser.New on an input
Init ==
    /\ input \in Inputs
    /\ \E s \in {ParserNew(input)} :
          /\ lexer = s.l
          /\ prvToken = s.prvToken
          /\ curToken = s.curToken
          /\ peekToken = s.peekToken
    /\ pc = "ParseFile"
    /\ jf = <<>>
    /\ ret = NoReturn
    /\ iface = <<>>
    /\ out = <<>>
    /\ tok = ZeroToken

\* a slip that reports the position of the token after the first one
ParseFileEnterAtPeek ==
    /\ pc = "ParseFile"
    /\ IF ~curTokenIs(Parser, LBRACE) /\ ~curTokenIs(Parser, LBRACKET)
       THEN /\ ret' = [doc |-> <<>>,
                       err |-> <<JSONErr(ExpectedOpenText \o TypeString[curToken.Type]
                                            \o InsteadText,
                                        peekToken.Position)>>]
            /\ pc' = "returned"
       ELSE /\ ret' = ret
            /\ pc' = "loop"
    /\ UNCHANGED <<input, lexer, prvToken, curToken, peekToken, jf, iface, out, tok>>

\* ParseFile up to its loop: the first token must open an object or an array
ParseFileEnter ==
    /\ pc = "ParseFile"
    /\ IF ~curTokenIs(Parser, LBRACE) /\ ~curTokenIs(Parser, LBRACKET)
       THEN /\ ret' = [doc |-> <<>>,
                       err |-> <<JSONErr(ExpectedOpenText \o TypeString[curToken.Type]
                                            \o InsteadText,
                                        curToken.Position)>>]
            /\ pc' = "returned"
       ELSE /\ ret' = ret
            /\ pc' = "loop"
    /\ UNCHANGED <<input, lexer, prvToken, curToken, peekToken, jf, iface, out, tok>>

\* a slip that returns the elements parsed so far together with the error
ParseFileElementPartial ==
    /\ pc = "loop"
    /\ ~curTokenIs(Parser, EOF)
    /\ \E r \in {parseElement(input, Parser)} :
          IF r.err # <<>>
          THEN /\ ret' = [doc |-> <<JSONFile(jf)>>, err |-> r.err]
               /\ pc' = "returned"
               /\ SetParser(r.s)
               /\ jf' = jf
          ELSE /\ jf' = Append(jf, r.val[1])
               /\ SetParser(nextToken(input, r.s))
               /\ UNCHANGED <<pc, ret>>
    /\ UNCHANGED <<input, iface, out, tok>>

\* one iteration of ParseFile's loop
ParseFileElement ==
    /\ pc = "loop"
    /\ ~curTokenIs(Parser, EOF)
    /\ \E r \in {parseElement(input, Parser)} :
          IF r.err # <<>>
          THEN /\ ret' = [doc |-> <<>>, err |-> r.err]
               /\ pc' = "returned"
               /\ SetParser(r.s)
               /\ jf' = jf
          ELSE /\ jf' = Append(jf, r.val[1])
               /\ SetParser(nextToken(input, r.s))
               /\ UNCHANGED <<pc, ret>>
    /\ UNCHANGED <<input, iface, out, tok>>

\* the loop ends at EOF and ParseFile returns the document
ParseFileReturn ==
    /\ pc = "loop"
    /\ curTokenIs(Parser, EOF)
    /\ ret' = [doc |-> <<JSONFile(jf)>>, err |-> <<>>]
    /\ pc' = "returned"
    /\ UNCHANGED <<input, lexer, prvToken, curToken, peekToken, jf, iface, out, tok>>

\* main: the document ParseFile returned is projected
MainToInterface ==
    /\ pc = "returned"
    /\ ret.err = <<>>
    /\ iface' = <<JSONFileToInterface(ret.doc[1])>>
    /\ pc' = "projected"
    /\ UNCHANGED <<input, lexer, prvToken, curToken, peekToken, jf, ret, out, tok>>

\* main: the projection is serialized and printed as valid JSON
MainMarshal ==
    /\ pc = "projected"
    /\ out' = MarshalIndent(iface[1])
    /\ pc' = "valid"
    /\ UNCHANGED <<input, lexer, prvToken, curToken, peekToken, jf, ret, iface, tok>>

\* main: the error ParseFile returned is printed and the program exits
MainInvalid ==
    /\ pc = "returned"
    /\ ret.err # <<>>
    /\ pc' = "invalid"
    /\ UNCHANGED <<input, lexer, prvToken, curToken, peekToken, jf, ret, iface, out, tok>>

Next ==
    \/ ParseFileEnter
    \/ ParseFileElement
    \/ ParseFileReturn
    \/ MainToInterface
    \/ MainMarshal
    \/ MainInvalid

Spec == Init /\ [][Next]_vars

\* ------------------------------------------------- the lexer on its own

\* the longest run of number characters drawn character by character
MaxNumberRun == 4

\* the longest string body drawn character by character
MaxStringBody == 4

\* the longest input drawn word by word
MaxWords == 2

\* how many times NextToken is called after the input is exhausted
MaxCallsAtEnd == 3

\* runs of number characters, alone and before a character that ends the run
NumberInputs ==
    {r \o tail : r \in Strings({"-", "0", "5", ".", "e", "+"}, MaxNumberRun) \ {<<>>},
                 tail \in {<<>>, Str("foo"), Str("*"), Str(" 1")}}

\* an opening quote and a body of quotes, backslashes, letters and control
\* bytes, alone and before more input
StringInputs ==
    {<<"\"">> \o b \o tail : b \in Strings({"\"", "\\", "a", "\n", "\t", NUL}, MaxStringBody),
                             tail \in {<<>>, Str("a\"")}}

Words ==
    {Str("{"), Str("}"), Str("["), Str("]"), Str(","), Str(":"),
     Str(" "), Str("\t"), Str("\n"), Str("\r"),
     Str("true"), Str("false"), Str("null"), Str("True"), Str("nul"), Str("s"),
     Str("_"), Str("*"), Str("7"), Str("\"a\""), <<NUL>>, Str("\f")}

\* inputs of the lexer's tests
LexerScenarios ==
    {Str("-0.5678e-12*"), Str("-056"), Str("-f123"), Str("56foo"), Str("-.95"),
     Str("-100e"), Str("1.23E+4"), Str("\"a\\\\\\\"b\" 1"), Str("{\n  \"k\": tru\n}\n")}

LexerInputs ==
    LexerScenarios \cup NumberInputs \cup StringInputs \cup Concatenations(Words, MaxWords)

\* lexer.New on an input, by a caller that reads the tokens itself
LexerInit ==
    /\ input \in LexerInputs
    /\ lexer = LexerNew(input)
    /\ prvToken = ZeroToken
    /\ curToken = ZeroToken
    /\ peekToken = ZeroToken
    /\ pc = "lexer"
    /\ jf = <<>>
    /\ ret = NoReturn
    /\ iface = <<>>
    /\ out = <<>>
    /\ tok = ZeroToken

\* one call of Lexer.NextToken
LexerNextToken ==
    /\ pc = "lexer"
    /\ lexer.position < Len(input) + MaxCallsAtEnd
    /\ \E r \in {NextToken(input, lexer)} :
          /\ lexer' = r.l
          /\ tok' = r.tok
    /\ UNCHANGED <<input, prvToken, curToken, peekToken, pc, jf, ret, iface, out>>

LexerNext == LexerNextToken

LexerSpec == LexerInit /\ [][LexerNext]_vars

\* ------------------------------------------------------------ properties

\* a message of the program: the text and the newline that ends it
Line(text) == Str(text) \o <<"\n">>

\* the tokens NextToken returns on an input, the first EOF excluded
RECURSIVE TokensFrom(_, _)
TokensFrom(inp, l) ==
    LET r == NextToken(inp, l)
    IN IF r.tok.Type = EOF THEN <<>> ELSE <<r.tok>> \o TokensFrom(inp, r.l)

TokenStream(inp) == TokensFrom(inp, LexerNew(inp))

FirstToken(inp) == NextToken(inp, LexerNew(inp)).tok

Returned == pc = "returned"

Accepted == Returned /\ ret.doc # <<>>

Rejected == Returned /\ ret.err # <<>>

\* C1: ParseFile returns either a document and no error, or no document and one
\* error with a message and a line/column position; an iteration of its loop that
\* fails appends nothing and returns, and nothing is appended after the return.
C1_Result ==
    Returned =>
        /\ Len(ret.doc) + Len(ret.err) = 1
        /\ ret.err # <<>> =>
              /\ ret.err[1].Msg # <<>>
              /\ ret.err[1].Pos.Line >= 1
              /\ ret.err[1].Pos.Column >= 1

C1_Stops ==
    /\ (ret.err = <<>> /\ ret'.err # <<>>) =>
          (jf' = jf /\ ret'.doc = <<>> /\ pc' = "returned")
    /\ pc \notin {"ParseFile", "loop"} => (jf' = jf /\ ret' = ret)

C1_OneOutcome == [](C1_Result) /\ [][C1_Stops]_vars

\* an error returned after a first element was parsed, so that a partial
\* document existed
C1_Witness == Rejected /\ jf # <<>>

\* C2: when the first token is neither '{' nor '[', ParseFile fails with
\* "Expected '{' or '[', got '<kind>' instead" at that token's position; on the
\* empty input the kind is EOF and the position line 1, column 1.
C2_FirstToken ==
    Returned =>
        LET first == FirstToken(input)
        IN /\ first.Type \notin {LBRACE, LBRACKET} =>
                 /\ ret.doc = <<>>
                 /\ ret.err = <<JSONErr(Str("Expected '{' or '[', got '")
                                           \o Str(first.Type) \o Line("' instead"),
                                       first.Position)>>
           /\ input = <<>> =>
                 ret.err = <<JSONErr(Line("Expected '{' or '[', got 'EOF' instead"),
                                     Position(1, 1))>>

\* a rejected first token that is not at line 1, column 1
C2_Witness ==
    /\ Rejected
    /\ FirstToken(input).Type = STRING_T
    /\ FirstToken(input).Position = Position(2, 2)
    /\ ret.err[1].Pos = Position(2, 2)

\* C3: in ParseFile's loop, a token other than '{', '[' and EOF that follows a
\* complete element fails with "Expected 'EOF', got '<kind>' instead", <kind> its
\* kind, at the position of the token after it; column 12 for ["value1"],
C3_Step ==
    (pc = "loop" /\ curToken.Type \notin {LBRACE, LBRACKET, EOF}) =>
        /\ jf # <<>>
        /\ pc' = "returned"
        /\ ret'.doc = <<>>
        /\ ret'.err = <<JSONErr(Str("Expected 'EOF', got '") \o Str(curToken.Type)
                                    \o Line("' instead"),
                                peekToken.Position)>>

C3_Example ==
    (Returned /\ input = Str("[\"value1\"],")) =>
        ret.err = <<JSONErr(Line("Expected 'EOF', got ',' instead"), Position(1, 12))>>

C3_AfterElement == [](C3_Example) /\ [][C3_Step]_vars

\* the error of ["value1"], whose comma is at column 11
C3_Witness ==
    /\ Rejected
    /\ jf # <<>>
    /\ curToken.Type = COMMA
    /\ curToken.Position = Position(1, 11)
    /\ ret.err[1].Pos = Position(1, 12)

\* C4: a document ParseFile returns has exactly one top-level element.
C4_OneElement == Accepted => Len(ret.doc[1].Elements) = 1

\* the tokens a node was built from: the node's own token with the kind and the
\* text its variant and value stand for, and the separators (position 0:0, which
\* no token of an input has)
Separator(type) == Token(type, <<type>>, Position(0, 0))

RECURSIVE Render(_)
RECURSIVE RenderElements(_, _)
RECURSIVE RenderPairs(_, _)
Render(n) ==
    CASE n.kind = "Object" ->
           <<Token(LBRACE, <<"{">>, n.Token.Position)>> \o RenderPairs(n.Pairs, 1)
               \o <<Separator(RBRACE)>>
      [] n.kind = "ArrayLiteral" ->
           <<Token(LBRACKET, <<"[">>, n.Token.Position)>>
               \o RenderElements(n.Elements, 1) \o <<Separator(RBRACKET)>>
      [] n.kind = "StringLiteral" ->
           <<Token(STRING_T, n.Value, n.Token.Position)>>
      [] n.kind = "NumberLiteral" ->
           <<Token(NUMBER, n.Token.Literal, n.Token.Position)>>
      [] n.kind = "Boolean" ->
           <<Token(IF n.Value THEN TRUE_T ELSE FALSE_T,
                   IF n.Value THEN Str("true") ELSE Str("false"), n.Token.Position)>>
      [] n.kind = "Null" ->
           <<Token(NULL_T, n.Value, n.Token.Position)>>

RenderElements(elements, i) ==
    IF i > Len(elements) THEN <<>>
    ELSE Render(elements[i])
             \o (IF i < Len(elements) THEN <<Separator(COMMA)>> ELSE <<>>)
             \o RenderElements(elements, i + 1)

RenderPairs(pairs, i) ==
    IF i > Len(pairs) THEN <<>>
    ELSE (IF pairs[i].key.kind = "StringLiteral" THEN Render(pairs[i].key)
          ELSE <<Separator("not a String node")>>)
             \o <<Separator(COLON)>> \o Render(pairs[i].value)
             \o (IF i < Len(pairs) THEN <<Separator(COMMA)>> ELSE <<>>)
             \o RenderPairs(pairs, i + 1)

RECURSIVE RenderDocument(_, _)
RenderDocument(elements, i) ==
    IF i > Len(elements) THEN <<>>
    ELSE Render(elements[i]) \o RenderDocument(elements, i + 1)

SameToken(r, t) ==
    /\ r.Type = t.Type
    /\ r.Literal = t.Literal
    /\ r.Position.Line = 0 \/ r.Position = t.Position

SameTokens(rs, ts) ==
    Len(rs) = Len(ts) /\ \A i \in 1..Len(rs) : SameToken(rs[i], ts[i])

Float(neg, m, e) == [neg |-> neg, m |-> m, e |-> e]

\* C5: the tree of an accepted input mirrors the source: read back element by
\* element, pair by pair and leaf by leaf, it gives the tokens of the input; {} is
\* one empty Object, [] one empty Array, [1, 2, 3] the Numbers 1, 2 and 3.
C5_Mirrors ==
    Accepted =>
        /\ SameTokens(RenderDocument(ret.doc[1].Elements, 1), TokenStream(input))
        /\ input = Str("{}") =>
              ret.doc[1].Elements = <<Object(Token(LBRACE, <<"{">>, Position(1, 1)), <<>>)>>
        /\ input = Str("[]") =>
              ret.doc[1].Elements =
                  <<ArrayLiteral(Token(LBRACKET, <<"[">>, Position(1, 1)), <<>>)>>
        /\ input = Str("[1, 2, 3]") =>
              /\ Len(ret.doc[1].Elements) = 1
              /\ Len(ret.doc[1].Elements[1].Elements) = 3
              /\ \A i \in 1..3 :
                    /\ ret.doc[1].Elements[1].Elements[i].kind = "NumberLiteral"
                    /\ ret.doc[1].Elements[1].Elements[i].Value = Float(FALSE, i, 0)

\* an accepted array of six values of every variant, an object among them
C5_Witness ==
    /\ Accepted
    /\ input = Str("[\"value\", 1, true, null, -0.2e2, {\"key\": 123}]")
    /\ Len(ret.doc[1].Elements[1].Elements) = 6
    /\ ret.doc[1].Elements[1].Elements[6].kind = "Object"

Projected == pc \in {"projected", "valid"}

\* g is what node n projects to
RECURSIVE Projects(_, _)
Projects(n, g) ==
    CASE n.kind = "Object" ->
           /\ g.type = "map"
           /\ DOMAIN g.v = {n.Pairs[i].key.Token.Literal : i \in 1..Len(n.Pairs)}
           /\ Cardinality(DOMAIN g.v) = Len(n.Pairs)
           /\ \A i \in 1..Len(n.Pairs) :
                  Projects(n.Pairs[i].value, g.v[n.Pairs[i].key.Token.Literal])
      [] n.kind = "ArrayLiteral" ->
           /\ g.type = "slice"
           /\ Len(g.v) = Len(n.Elements)
           /\ \A i \in 1..Len(n.Elements) : Projects(n.Elements[i], g.v[i])
      [] n.kind = "StringLiteral" -> g.type = "string" /\ g.v = n.Value
      [] n.kind = "NumberLiteral" -> g.type = "float64" /\ g.v = n.Value
      [] n.kind = "Boolean" -> g.type = "bool" /\ g.v = n.Value
      [] n.kind = "Null" -> g.type = "nil"

\* C6: ToInterface is a structural projection: a document gives the projection
\* of its first top-level element alone, an Array the sequence of its elements'
\* projections in order, an Object a map with one entry per pair under the key's
\* raw literal, a String, Number or Boolean its stored value and Null nil; the
\* empty object after [1] is dropped.
C6_Projection ==
    /\ Projected => Projects(ret.doc[1].Elements[1], iface[1])
    /\ (Projected /\ input = Str("[1]{}")) =>
          /\ Len(ret.doc[1].Elements) = 2
          /\ iface[1].type = "slice"
          /\ Len(iface[1].v) = 1
          /\ iface[1].v[1] = GoFloat64(Float(FALSE, 1, 0))

\* the projection of an array that a second top-level element follows
C6_Witness ==
    /\ pc = "projected"
    /\ input = Str("[1]{}")
    /\ Len(ret.doc[1].Elements) = 2
    /\ iface[1].type = "slice"

\* a and b are the same number
SameNumber(a, b) == (a.m = 0 /\ b.m = 0) \/ a = b

\* trees a and b are structurally equal: the same kinds in the same places,
\* numbers by value, strings by raw literal, the pairs of an object in any order
RECURSIVE SameTree(_, _)
SameTree(a, b) ==
    /\ a.kind = b.kind
    /\ CASE a.kind = "Object" ->
              /\ Len(a.Pairs) = Len(b.Pairs)
              /\ \A i \in 1..Len(a.Pairs) : \E j \in 1..Len(b.Pairs) :
                     /\ a.Pairs[i].key.Value = b.Pairs[j].key.Value
                     /\ SameTree(a.Pairs[i].value, b.Pairs[j].value)
         [] a.kind = "ArrayLiteral" ->
              /\ Len(a.Elements) = Len(b.Elements)
              /\ \A i \in 1..Len(a.Elements) : SameTree(a.Elements[i], b.Elements[i])
         [] a.kind = "NumberLiteral" -> SameNumber(a.Value, b.Value)
         [] OTHER -> a.Value = b.Value

SameDocument(a, b) ==
    /\ Len(a.Elements) = Len(b.Elements)
    /\ \A i \in 1..Len(a.Elements) : SameTree(a.Elements[i], b.Elements[i])

\* the printed text parses to a tree structurally equal to the one it came from
RoundTrips ==
    LET again == ParseFile(out)
    IN /\ again.err = <<>>
       /\ SameDocument(ret.doc[1], again.doc[1])

\* a backslash in a string literal
HasEscape == \E i \in 1..Len(input) : input[i] = "\\"

\* C7: round trip: the text printed for an accepted input parses again to a tree
\* structurally equal to the first, numbers compared by value and strings by raw
\* literal, strings with escape sequences included.
C7_RoundTrip == pc = "valid" => RoundTrips

\* the round trip of the inputs with one top-level element and no escape
PlainRoundTrip ==
    (pc = "valid" /\ Len(ret.doc[1].Elements) = 1 /\ ~HasEscape) => RoundTrips

\* the text printed for the sample document of the command's test
SamplePrinted ==
    (pc = "valid" /\ Len(input) > 60) =>
        out = Str("{\n  \"key1\": \"value\",\n  \"key2\": -123,\n  \"key3\": [\n    \"value\",\n    1,\n    true,\n    null,\n    -20\n  ],\n  \"key4\": {\n    \"key4\": null\n  }\n}")

\* the index of the first STRING token of toks[i..n] that a ':' follows inside
\* an object and whose text an earlier key of the same object has, or 0; stack
\* holds, for every container open at i, whether it is an object and its keys
RECURSIVE DuplicateKeyAt(_, _, _, _)
DuplicateKeyAt(toks, i, n, stack) ==
    IF i > n THEN 0
    ELSE
    LET t == toks[i]
        depth == Len(stack)
    IN CASE t.Type = LBRACE ->
              DuplicateKeyAt(toks, i + 1, n, Append(stack, [object |-> TRUE, keys |-> {}]))
         [] t.Type = LBRACKET ->
              DuplicateKeyAt(toks, i + 1, n, Append(stack, [object |-> FALSE, keys |-> {}]))
         [] t.Type \in {RBRACE, RBRACKET} ->
              DuplicateKeyAt(toks, i + 1, n,
                             IF depth = 0 THEN stack ELSE SubSeq(stack, 1, depth - 1))
         [] /\ t.Type = STRING_T
            /\ depth > 0
            /\ stack[depth].object
            /\ i < n
            /\ toks[i + 1].Type = COLON ->
              IF t.Literal \in stack[depth].keys THEN i
              ELSE DuplicateKeyAt(toks, i + 1, n,
                       [stack EXCEPT ![depth].keys = @ \cup {t.Literal}])
         [] OTHER -> DuplicateKeyAt(toks, i + 1, n, stack)

\* the first repeated key among the first n tokens of the input, or 0
FirstDuplicateKey(inp, n) == DuplicateKeyAt(TokenStream(inp), 1, n, <<>>)

\* how many tokens of the input come before the parser's current token
TokensBeforeCurrent ==
    Cardinality({i \in 1..Len(TokenStream(input)) :
                    \/ TokenStream(input)[i].Position.Line < curToken.Position.Line
                    \/ /\ TokenStream(input)[i].Position.Line = curToken.Position.Line
                       /\ TokenStream(input)[i].Position.Column < curToken.Position.Column})

DuplicateError == Rejected /\ SubSeq(ret.err[1].Msg, 1, 24) = Str("Duplicate JSON property ")

\* the statement of C8 as written: the error is at the repeated key
C8_AtKeyToken == DuplicateError => ret.err[1].Pos = prvToken.Position

\* C8 (amended): an input is rejected as having a duplicate property exactly
\* when, among the tokens read before the error, a key of an object repeats an
\* earlier key of that object; the key is then the first such key and the error
\* position is that of the ':' after it, not of the key.
C8_AtColon ==
    LET toks == TokenStream(input)
    IN /\ Accepted => FirstDuplicateKey(input, Len(toks)) = 0
       /\ DuplicateError =>
             /\ curToken.Type = COLON
             /\ ret.err[1].Pos = curToken.Position
             /\ FirstDuplicateKey(input, Len(toks)) = TokensBeforeCurrent
             /\ toks[TokensBeforeCurrent] = prvToken
       /\ (Rejected /\ ~DuplicateError) =>
             FirstDuplicateKey(input, TokensBeforeCurrent) = 0

\* a duplicate reported for the third key, two pairs having been inserted
C8_Witness ==
    /\ DuplicateError
    /\ FirstDuplicateKey(input, Len(TokenStream(input))) = 10
    /\ prvToken.Position = Position(1, 38)
    /\ ret.err[1].Pos = Position(1, 44)

\* C9: the message of a duplicate-key error is "Duplicate JSON property
\* '<key>'", <key> the repeated key's raw literal in double quotes; for the three
\* keys key1, key2, key1 of the test it is reported at line 1, column 44.
C9_Message ==
    /\ DuplicateError =>
          ret.err[1].Msg = Str("Duplicate JSON property '\"") \o prvToken.Literal
                               \o Line("\"'")
    /\ (Returned /\ input = Str("{\"key1\": \"value1\", \"key2\": \"value2\", \"key1\": \"value3\"}")) =>
          ret.err = <<JSONErr(Line("Duplicate JSON property '\"key1\"'"), Position(1, 44))>>

\* the duplicate of a key whose literal is an escape sequence
C9_Witness ==
    /\ DuplicateError
    /\ prvToken.Literal = Str("\\u0061")
    /\ ret.err[1].Msg = Line("Duplicate JSON property '\"\\u0061\"'")

\* the keys of every object of a tree have pairwise distinct raw literals
RECURSIVE DistinctKeys(_)
DistinctKeys(n) ==
    CASE n.kind = "Object" ->
           /\ \A i, j \in 1..Len(n.Pairs) :
                 i # j => n.Pairs[i].key.Value # n.Pairs[j].key.Value
           /\ \A i \in 1..Len(n.Pairs) : DistinctKeys(n.Pairs[i].value)
      [] n.kind = "ArrayLiteral" ->
           \A i \in 1..Len(n.Elements) : DistinctKeys(n.Elements[i])
      [] OTHER -> TRUE

AcceptedWithPairs(inp, n) ==
    (Returned /\ input = inp) =>
        /\ ret.doc # <<>>
        /\ ret.doc[1].Elements[1].kind = "Object"
        /\ Len(ret.doc[1].Elements[1].Pairs) = n

\* C10: keys are duplicates exactly when their raw literals are the same bytes:
\* in an accepted tree the keys of each object are pairwise distinct, "a" and
\* "\u0061" are two keys of one object, and an object nested in, or next to, an
\* object may repeat its key.
C10_DistinctKeys ==
    /\ Accepted => \A i \in 1..Len(ret.doc[1].Elements) : DistinctKeys(ret.doc[1].Elements[i])
    /\ AcceptedWithPairs(Str("{\"a\":1,\"\\u0061\":1}"), 2)
    /\ AcceptedWithPairs(Str("{\"a\":{\"a\":1}}"), 1)
    /\ (Returned /\ input = Str("[{\"a\":1},{\"a\":1}]")) =>
          /\ ret.doc # <<>>
          /\ Len(ret.doc[1].Elements[1].Elements) = 2
    /\ (Returned /\ input = Str("{\"k\":1,\"k\":2}")) => DuplicateError

\* an accepted object whose two keys differ only by an undecoded escape
C10_Witness ==
    /\ Accepted
    /\ input = Str("{\"a\":1,\"\\u0061\":1}")
    /\ ret.doc[1].Elements[1].Pairs[1].key.Value = <<"a">>
    /\ ret.doc[1].Elements[1].Pairs[2].key.Value = Str("\\u0061")

\* the first escape of lit from index i (1-based) on that is not one of
\* \" \\ \/ \b \f \n \r \t or \u and four hex digits: "unicode" for a \u,
\* "escape" for any other, "none" when every escape is one of them
RECURSIVE FirstBadEscape(_, _)
FirstBadEscape(lit, i) ==
    IF i >= Len(lit) THEN "none"
    ELSE IF lit[i] # "\\" THEN FirstBadEscape(lit, i + 1)
    ELSE IF lit[i + 1] \in {"\"", "\\", "/", "b", "f", "n", "r", "t"}
    THEN FirstBadEscape(lit, i + 2)
    ELSE IF lit[i + 1] # "u" THEN "escape"
    ELSE IF /\ i + 5 <= Len(lit)
            /\ \A j \in i + 2..i + 5 :
                   lit[j] \in Digits \cup {"a", "b", "c", "d", "e", "f",
                                            "A", "B", "C", "D", "E", "F"}
    THEN FirstBadEscape(lit, i + 6)
    ELSE "unicode"

TokenKinds(toks) == [i \in 1..Len(toks) |-> toks[i].Type]

\* the input is one string in an array, or one string key with a number in an
\* object: the index of the string token, or 0
LoneString(toks) ==
    IF TokenKinds(toks) = <<LBRACKET, STRING_T, RBRACKET>> THEN 2
    ELSE IF TokenKinds(toks) = <<LBRACE, STRING_T, COLON, NUMBER, RBRACE>> THEN 2
    ELSE 0

\* C11: parseString accepts a STRING token exactly when every escape of its
\* literal, read left to right, is one of \" \\ \/ \b \f \n \r \t or \u and four
\* hex digits; a bad \u fails with "Invalid unicode escape sequence", any other
\* bad escape with "Invalid escape sequence", both at the string token's
\* position (its opening quote).
C11_Escapes ==
    Returned =>
        LET toks == TokenStream(input)
        IN LoneString(toks) # 0 =>
              LET str == toks[LoneString(toks)]
                  bad == FirstBadEscape(str.Literal, 1)
              IN /\ bad = "none" <=> ret.err = <<>>
                 /\ bad = "unicode" =>
                        ret.err = <<JSONErr(Line("Invalid unicode escape sequence"),
                                            str.Position)>>
                 /\ bad = "escape" =>
                        ret.err = <<JSONErr(Line("Invalid escape sequence"),
                                            str.Position)>>

\* a key whose \u escape has a character that is no hex digit, rejected at the
\* opening quote of the key
C11_Witness ==
    /\ Rejected
    /\ input = Str("{\"key\\u00FZ\": 1}")
    /\ ret.err[1].Msg = Line("Invalid unicode escape sequence")
    /\ ret.err[1].Pos = Position(1, 2)

\* the line of the byte at index i (1-based) of inp: 1 and the newlines before
\* it; an index past the end stands for a byte that would follow the input
LineOf(inp, i) == 1 + Cardinality({j \in 1..i - 1 : j <= Len(inp) /\ inp[j] = "\n"})

\* its column: the bytes of its line up to it and with it
ColumnOf(inp, i) ==
    i - (CHOOSE j \in 0..i - 1 :
            /\ j > 0 => (j <= Len(inp) /\ inp[j] = "\n")
            /\ \A k \in j + 1..i - 1 : k > Len(inp) \/ inp[k] # "\n")

PositionOf(inp, i) == Position(LineOf(inp, i), ColumnOf(inp, i))

\* the index of the byte of inp at a position; one past the end stands for the
\* end of the input
IndexAt(inp, pos) == CHOOSE i \in 1..Len(inp) + 1 : PositionOf(inp, i) = pos

\* t is a STRING token whose literal is the text of inp between the quote at
\* the token's position and the next quote after the literal
SourceText(inp, t) ==
    LET open == IndexAt(inp, t.Position)
        close == open + Len(t.Literal) + 1
    IN /\ \E i \in 1..Len(inp) : PositionOf(inp, i) = t.Position
       /\ inp[open] = "\""
       /\ close <= Len(inp)
       /\ inp[close] = "\""
       /\ t.Literal = SubSeq(inp, open + 1, close - 1)

\* the String nodes of a tree, keys included
RECURSIVE StringNodes(_)
StringNodes(n) ==
    CASE n.kind = "Object" ->
           UNION {StringNodes(n.Pairs[i].key) \cup StringNodes(n.Pairs[i].value) :
                     i \in 1..Len(n.Pairs)}
      [] n.kind = "ArrayLiteral" ->
           UNION {StringNodes(n.Elements[i]) : i \in 1..Len(n.Elements)}
      [] n.kind = "StringLiteral" -> {n}
      [] OTHER -> {}

\* C12: strings are never decoded: the literal of every STRING token is the
\* source text between its quotes, escapes as written, and a String node keeps
\* that text as its value and as the literal of its token.
C12_Undecoded ==
    /\ \A t \in {prvToken, curToken, peekToken} :
           t.Type = STRING_T => SourceText(input, t)
    /\ Accepted =>
           \A i \in 1..Len(ret.doc[1].Elements) :
               \A n \in StringNodes(ret.doc[1].Elements[i]) :
                   /\ n.Value = n.Token.Literal
                   /\ n.Token.Type = STRING_T
                   /\ SourceText(input, n.Token)

\* a key and a value with escapes, kept as written
C12_Witness ==
    /\ Accepted
    /\ input = Str("{\"k\\n\": \"a\\\"b\", \"n\": [0.5, 1e21, -0]}")
    /\ ret.doc[1].Elements[1].Pairs[1].key.Value = Str("k\\n")
    /\ ret.doc[1].Elements[1].Pairs[1].value.Value = Str("a\\\"b")

\* NextToken has returned a token that lies in the input
TokenInInput == tok.Type \notin {"", EOF}

\* the index (1-based) of the first character of the token returned
TokenStart == IndexAt(input, tok.Position)

\* the last index of the longest run of members of set that starts at index i
RunEnd(inp, i, set) ==
    CHOOSE e \in i..Len(inp) :
        /\ \A k \in i + 1..e : inp[k] \in set
        /\ e < Len(inp) => inp[e + 1] \notin set

AllDigits(s) == s # <<>> /\ \A i \in 1..Len(s) : s[i] \in Digits

\* s is sign, integer part, fraction and exponent of the grammar
\* -?(0|[1-9][0-9]*)(\.[0-9]+)?([eE][-+]?[0-9]+)?
NumberGrammar(s) ==
    \E a \in 0..1 : \E b \in a + 1..Len(s) : \E c \in b..Len(s) :
        /\ a = 1 => s[1] = "-"
        /\ LET int == SubSeq(s, a + 1, b)
               frac == SubSeq(s, b + 1, c)
               exp == SubSeq(s, c + 1, Len(s))
           IN /\ AllDigits(int)
              /\ Len(int) > 1 => int[1] # "0"
              /\ frac # <<>> => frac[1] = "." /\ AllDigits(Tail(frac))
              /\ exp # <<>> =>
                    /\ exp[1] \in {"e", "E"}
                    /\ \/ AllDigits(Tail(exp))
                       \/ /\ Len(exp) > 1
                          /\ exp[2] \in {"-", "+"}
                          /\ AllDigits(Tail(Tail(exp)))

\* C13: number scanning: from '-' or a digit NextToken takes the longest run of
\* 0-9 . - + e E; the token is NUMBER with the run as literal when the run is of
\* the number grammar, and otherwise one ILLEGAL token with the whole run; the
\* character after the run is not taken; 56foo gives NUMBER 56 and then foo.
C13_NumberScan ==
    /\ TokenInInput =>
          LET start == TokenStart
              run == SubSeq(input, start,
                            RunEnd(input, start, Digits \cup {".", "-", "+", "e", "E"}))
          IN /\ input[start] \in Digits \cup {"-"} =>
                   /\ tok.Literal = run
                   /\ tok.Type = IF NumberGrammar(run) THEN NUMBER ELSE ILLEGAL
                   /\ lexer.position = start - 1 + Len(run)
             /\ tok.Type = NUMBER => input[start] \in Digits \cup {"-"}
    /\ \A bad \in {Str("-056"), Str("-"), Str("-.95"), Str("-100e")} :
          (input = bad /\ TokenInInput) => tok = Token(ILLEGAL, bad, Position(1, 1))
    /\ (input = Str("56foo") /\ TokenInInput) =>
          \/ tok = Token(NUMBER, Str("56"), Position(1, 1)) /\ lexer.ch = "f"
          \/ tok = Token(ILLEGAL, Str("foo"), Position(1, 3))

\* the number of 56foo, the lexer left at the f
C13_Witness ==
    /\ input = Str("56foo")
    /\ tok = Token(NUMBER, Str("56"), Position(1, 1))
    /\ lexer.ch = "f"

\* the bytes of value 0 to 31 that the inputs have
ControlBytes == {NUL, "\t", "\n", "\r", "\f"}

\* how many backslashes in a row end just before index j
BackslashesBefore(inp, j) ==
    CHOOSE n \in 0..j - 1 :
        /\ \A k \in j - n..j - 1 : inp[k] = "\\"
        /\ j - n - 1 >= 1 => inp[j - n - 1] # "\\"

\* index j ends the string opened before it: a quote after an even number of
\* backslashes, a control byte, or the end of the input
EndsString(inp, j) ==
    \/ j = Len(inp) + 1
    \/ inp[j] \in ControlBytes
    \/ inp[j] = "\"" /\ BackslashesBefore(inp, j) % 2 = 0

\* the first index after the opening quote at index i that ends the string
StringStop(inp, i) ==
    CHOOSE j \in i + 1..Len(inp) + 1 :
        /\ EndsString(inp, j)
        /\ \A k \in i + 1..j - 1 : ~EndsString(inp, k)

\* C14: string scanning: after an opening quote NextToken gives STRING exactly
\* when a closing quote that an even number of backslashes precedes comes before
\* any byte of value 0 to 31 and before the end of the input; a quote after an odd
\* number of backslashes does not close the string; otherwise it gives ILLEGAL;
\* the literal is the text after the opening quote up to the closing quote, the
\* offending byte or the end of the input.
C14_StringScan ==
    TokenInInput =>
        LET start == TokenStart
            stop == StringStop(input, start)
        IN /\ input[start] = "\"" =>
                 /\ tok.Literal = SubSeq(input, start + 1, stop - 1)
                 /\ tok.Type = IF stop <= Len(input) /\ input[stop] = "\""
                               THEN STRING_T ELSE ILLEGAL
           /\ tok.Type = STRING_T => input[start] = "\""

\* a string with a quote after three backslashes inside it
C14_Witness ==
    /\ input = Str("\"a\\\\\\\"b\" 1")
    /\ tok = Token(STRING_T, Str("a\\\\\\\"b"), Position(1, 1))
    /\ lexer.ch = " "

\* a string cut short by a raw newline
C14_WitnessIllegal ==
    /\ input = Str("\"a\n\"")
    /\ tok = Token(ILLEGAL, Str("a"), Position(1, 1))

\* the ASCII letters and the underscore
LetterBytes ==
    {Str("abcdefghijklmnopqrstuvwxyzABCDEFGHIJKLMNOPQRSTUVWXYZ_")[i] : i \in 1..53}

\* the index of the first byte at or after 0-based index p of inp that is not a
\* space, a tab, \n or \r; one past the end when there is none
FirstAfterWhitespace(inp, p) ==
    IF p >= Len(inp) THEN Len(inp) + 1
    ELSE CHOOSE i \in p + 1..Len(inp) + 1 :
             /\ i <= Len(inp) => inp[i] \notin {" ", "\t", "\n", "\r"}
             /\ \A k \in p + 1..i - 1 : inp[k] \in {" ", "\t", "\n", "\r"}

\* t is the token of the claim for the byte at index i of inp
Classified(inp, i, t) ==
    LET c == inp[i]
        word == SubSeq(inp, i, RunEnd(inp, i, LetterBytes))
    IN /\ c = "{" => (t.Type = LBRACE /\ t.Literal = <<c>>)
       /\ c = "}" => (t.Type = RBRACE /\ t.Literal = <<c>>)
       /\ c = "[" => (t.Type = LBRACKET /\ t.Literal = <<c>>)
       /\ c = "]" => (t.Type = RBRACKET /\ t.Literal = <<c>>)
       /\ c = "," => (t.Type = COMMA /\ t.Literal = <<c>>)
       /\ c = ":" => (t.Type = COLON /\ t.Literal = <<c>>)
       /\ c \in LetterBytes =>
             /\ t.Literal = word
             /\ t.Type = IF word = Str("true") THEN TRUE_T
                         ELSE IF word = Str("false") THEN FALSE_T
                         ELSE IF word = Str("null") THEN NULL_T
                         ELSE ILLEGAL
       /\ c \notin LetterBytes \cup Digits \cup {"{", "}", "[", "]", ",", ":", "\"", "-", NUL} =>
             (t.Type = ILLEGAL /\ t.Literal = <<c>>)

\* a call of NextToken from the lexer l that returned t
C15_Call ==
    LET first == FirstAfterWhitespace(input, lexer.position)
    IN /\ first <= Len(input) => Classified(input, first, tok')
       /\ tok'.Type \in {TRUE_T, FALSE_T, NULL_T} => first <= Len(input)
       /\ (first <= Len(input) /\ tok'.Type \in {TRUE_T, FALSE_T, NULL_T}) =>
              input[first] \in LetterBytes

\* C15: classification: after the spaces, tabs, \n and \r, each of { } [ ] , :
\* gives its own kind with that character as literal; a longest run of letters
\* and underscores gives TRUE, FALSE or NULL exactly when it is true, false or
\* null, and ILLEGAL with the run as literal otherwise; any other byte that
\* starts no token gives ILLEGAL with that one character as literal.
C15_Classification == [][C15_Call]_vars

\* the misspelt word of an object, returned as one ILLEGAL token
C15_Witness ==
    /\ input = Str("{\n  \"k\": tru\n}\n")
    /\ tok = Token(ILLEGAL, Str("tru"), Position(2, 8))
    /\ lexer.ch = "\n"

\* the token returned begins at its position: the position is that of a byte
\* of the input, the literal is the text from that byte on (after it, when it
\* is the opening quote of a string), and the lexer stands after the token
AtFirstCharacter ==
    TokenInInput =>
        LET start == TokenStart
            n == Len(tok.Literal)
        IN /\ \E i \in 1..Len(input) : PositionOf(input, i) = tok.Position
           /\ IF input[start] = "\""
              THEN /\ tok.Literal = SubSeq(input, start + 1, start + n)
                   /\ lexer.position = start + n + 1
              ELSE /\ tok.Literal = SubSeq(input, start, start + n - 1)
                   /\ lexer.position = start + n - 1

\* the position one column past the last byte of inp
PastLastByte(inp) ==
    IF inp = <<>> THEN Position(1, 1)
    ELSE Position(LineOf(inp, Len(inp)), ColumnOf(inp, Len(inp)) + 1)

\* the first EOF token of an input that ends outside a string
FirstEOF == tok.Type = EOF /\ lexer.position = Len(input) + 1

\* C16 as stated: every token has the position of its first character, and the
\* first EOF token is one column past the last byte.
C16_PastLastByte ==
    /\ AtFirstCharacter
    /\ FirstEOF => tok.Position = PastLastByte(input)

\* C16: every token NextToken returns has the position of its first character:
\* line 1 and the newlines before it, column the bytes of its line up to it, the
\* first byte at line 1, column 1, a string at its opening quote; an EOF token
\* has the position of the byte it read, which for the first EOF at the end of
\* the input is the position a further byte would have: one column past the
\* last byte, or column 1 of the next line when the last byte is a newline.
C16_FirstCharacter ==
    /\ AtFirstCharacter
    /\ tok.Type = EOF => tok.Position = PositionOf(input, lexer.position)
    /\ FirstEOF =>
          tok.Position = IF input # <<>> /\ input[Len(input)] = "\n"
                         THEN Position(LineOf(input, Len(input)) + 1, 1)
                         ELSE PastLastByte(input)

\* the EOF token of an input whose last byte is a newline
C16_Witness ==
    /\ input = Str("{\n  \"k\": tru\n}\n")
    /\ tok = Token(EOF, <<>>, Position(4, 1))
    /\ lexer.position = Len(input) + 1

\* the tokens NextToken returns on an input up to the first EOF, with it
RECURSIVE TokensToEOF(_, _)
TokensToEOF(inp, l) ==
    LET r == NextToken(inp, l)
    IN IF r.tok.Type = EOF THEN <<r.tok>> ELSE <<r.tok>> \o TokensToEOF(inp, r.l)

\* the index of the first token of toks[i..] that the grammar of documents does
\* not allow where it stands, or 0: expect is what may come next, stack the
\* open containers ("O" or "A"), innermost last; containers may follow one
\* another at the top level, as ParseFile reads them
RECURSIVE FirstBadToken(_, _, _, _)
FirstBadToken(toks, i, expect, stack) ==
    LET k == toks[i].Type
        n == Len(stack)
        after == IF n > 1 THEN "separator" ELSE "top"
        closed == SubSeq(stack, 1, n - 1)
        scalar == k \in {STRING_T, NUMBER, TRUE_T, FALSE_T, NULL_T}
    IN CASE expect = "top" /\ k = EOF /\ i > 1 -> 0
         [] expect \in {"top", "value", "valueOrEnd"} /\ k = LBRACE ->
              FirstBadToken(toks, i + 1, "keyOrEnd", Append(stack, "O"))
         [] expect \in {"top", "value", "valueOrEnd"} /\ k = LBRACKET ->
              FirstBadToken(toks, i + 1, "valueOrEnd", Append(stack, "A"))
         [] expect \in {"value", "valueOrEnd"} /\ scalar ->
              FirstBadToken(toks, i + 1, "separator", stack)
         [] expect = "valueOrEnd" /\ k = RBRACKET ->
              FirstBadToken(toks, i + 1, after, closed)
         [] expect \in {"key", "keyOrEnd"} /\ k = STRING_T ->
              FirstBadToken(toks, i + 1, "colon", stack)
         [] expect = "keyOrEnd" /\ k = RBRACE ->
              FirstBadToken(toks, i + 1, after, closed)
         [] expect = "colon" /\ k = COLON ->
              FirstBadToken(toks, i + 1, "value", stack)
         [] expect = "separator" /\ k = COMMA ->
              FirstBadToken(toks, i + 1, IF stack[n] = "O" THEN "key" ELSE "value", stack)
         [] expect = "separator" /\ k = RBRACE /\ stack[n] = "O" ->
              FirstBadToken(toks, i + 1, after, closed)
         [] expect = "separator" /\ k = RBRACKET /\ stack[n] = "A" ->
              FirstBadToken(toks, i + 1, after, closed)
         [] OTHER -> i

\* the error is one of the grammar: a token stands where none of its kind may
GrammarError ==
    /\ Rejected
    /\ SubSeq(ret.err[1].Msg, 1, 8) \in {Str("Expected"), Str("Unexpect")}

\* the error is at the first character of the first token the grammar does
\* not allow
AtOffendingToken ==
    LET toks == TokensToEOF(input, LexerNew(input))
        bad == FirstBadToken(toks, 1, "top", <<>>)
    IN bad # 0 /\ ret.err[1].Pos = toks[bad].Position

\* C17: position correctness: the position of the error ParseFile returns for an
\* input with a mistake is the line and column of the first character of the
\* offending token.
C17_AtOffendingToken == GrammarError => AtOffendingToken

\* the errors of the grammar but the one for a token after a top-level element
OffendingTokenButAfterElement ==
    (GrammarError /\ SubSeq(ret.err[1].Msg, 1, 14) # Str("Expected 'EOF'")) =>
        AtOffendingToken

\* nothing but spaces, tabs, \n and \r is left for the lexer to read
Exhausted == FirstAfterWhitespace(input, lexer.position) = Len(input) + 1

\* a call of NextToken on an exhausted input returns EOF with an empty literal
EOFForever == Exhausted => (tok'.Type = EOF /\ tok'.Literal = <<>>)

\* NextToken has returned EOF at the end of the input
AtEnd == tok.Type = EOF /\ lexer.position > Len(input)

\* C18 as stated: once the input is exhausted every further call returns EOF
\* with an empty literal, and a call at the end of the input changes nothing:
\* it returns the token the call before it returned.
C18_Idempotent == [][EOFForever /\ (AtEnd => tok' = tok)]_vars

\* C18: NextToken can be called again and again; once the input is exhausted
\* every further call returns EOF with an empty literal; a call at the end of
\* the input returns the kind and the literal of the call before it, one column
\* further, and moves the lexer one byte on.
C18_EOFForever ==
    [][/\ EOFForever
       /\ AtEnd =>
             /\ tok' = Token(EOF, <<>>,
                             Position(tok.Position.Line, tok.Position.Column + 1))
             /\ lexer'.position = lexer.position + 1
             /\ lexer'.ch = NUL]_vars

\* the second EOF token of {}
C18_Witness ==
    /\ input = Str("{}")
    /\ tok = Token(EOF, <<>>, Position(1, 4))
    /\ lexer.position = 4

\* the kinds of token that have no function to parse a value
NoHandlerKinds == {COMMA, COLON, RBRACE, RBRACKET, ILLEGAL, EOF}

\* more containers are opened than closed by the first n tokens of toks
InContainer(toks, n) ==
    Cardinality({i \in 1..n : toks[i].Type \in {LBRACE, LBRACKET}}) >
    Cardinality({i \in 1..n : toks[i].Type \in {RBRACE, RBRACKET}})

\* the index of the token the parser stopped at as its current token, when that
\* token is the first one the grammar does not allow, stands inside a container
\* and has no function to parse a value; 0 otherwise
ValueRequiredAt ==
    LET toks == TokensToEOF(input, LexerNew(input))
        bad == FirstBadToken(toks, 1, "top", <<>>)
    IN IF /\ Rejected
          /\ bad > 1
          /\ InContainer(toks, bad - 1)
          /\ curToken = toks[bad]
          /\ curToken.Type \in NoHandlerKinds
       THEN bad ELSE 0

\* C19: when a value is required and the current token has no function to parse
\* one, the message of the error is chosen by the kind of the token before it
\* (the list of values after ':' or ',', the list with ']' added after '[',
\* "Unexpected token found" otherwise), and the position of the error is the
\* position of the current token.
C19_NoHandler ==
    LET toks == TokensToEOF(input, LexerNew(input))
        bad == ValueRequiredAt
        before == toks[bad - 1].Type
        kind == TypeString[toks[bad].Type]
        list == Str("Expected 'STRING', 'NUMBER', 'NULL', 'TRUE', 'FALSE', '{', '['")
    IN bad # 0 =>
          /\ ret.err[1].Pos = toks[bad].Position
          /\ ret.err[1].Msg =
                CASE before \in {COLON, COMMA} ->
                       list \o Str(", got '") \o kind \o Line("' instead")
                  [] before = LBRACKET ->
                       list \o Str(", ']', got '") \o kind \o Line("' instead")
                  [] OTHER -> Str("Unexpected token found '") \o kind \o Line("'")

C19_Witness ==
    LET toks == TokensToEOF(input, LexerNew(input))
    IN /\ ValueRequiredAt # 0
       /\ toks[ValueRequiredAt - 1].Type = COLON
       /\ curToken.Type = RBRACE

C19_WitnessAfterBracket ==
    LET toks == TokensToEOF(input, LexerNew(input))
    IN /\ ValueRequiredAt # 0
       /\ toks[ValueRequiredAt - 1].Type = LBRACKET
       /\ curToken.Type = ILLEGAL

C19_WitnessAfterComma ==
    LET toks == TokensToEOF(input, LexerNew(input))
    IN /\ ValueRequiredAt # 0
       /\ toks[ValueRequiredAt - 1].Type = COMMA
       /\ curToken.Type = EOF

\* no token without a function to parse a value is met after a token other
\* than ':', ',' and '['
C19_OtherwiseUnreached ==
    LET toks == TokensToEOF(input, LexerNew(input))
    IN ValueRequiredAt # 0 =>
          toks[ValueRequiredAt - 1].Type \in {COLON, COMMA, LBRACKET}

\* position a is before position b in the input
Before(a, b) == a.Line < b.Line \/ (a.Line = b.Line /\ a.Column < b.Column)

\* the index of the token after a '{' that is neither a STRING nor a '}', when
\* the grammar allows every token before it; 0 when the input has no such token
AfterBraceAt ==
    LET toks == TokensToEOF(input, LexerNew(input))
        bad == FirstBadToken(toks, 1, "top", <<>>)
    IN IF bad > 1 /\ toks[bad - 1].Type = LBRACE THEN bad ELSE 0

\* some '{' of the input is followed by a token that is neither a STRING nor a '}'
BadKeySomewhere ==
    LET toks == TokensToEOF(input, LexerNew(input))
    IN \E i \in 1..(Len(toks) - 1) :
          toks[i].Type = LBRACE /\ toks[i + 1].Type \notin {STRING_T, RBRACE}

\* C20: on entering an object, at the top level or nested, the token after the
\* '{' must be a STRING or a '}': an input where it is not is never accepted, and
\* unless ParseFile failed before that brace it fails with "Expected 'STRING',
\* '}', got '<kind>' instead" at the position of the token after the brace.
C20_KeyOrEnd ==
    LET toks == TokensToEOF(input, LexerNew(input))
        bad == AfterBraceAt
    IN Returned =>
          /\ BadKeySomewhere => Rejected
          /\ bad # 0 =>
                \/ Before(ret.err[1].Pos, toks[bad - 1].Position)
                \/ ret.err[1] =
                      JSONErr(Str("Expected 'STRING', '}', got '")
                                  \o TypeString[toks[bad].Type] \o Line("' instead"),
                              toks[bad].Position)

C20_Witness ==
    /\ input = Str("{key1: 0}")
    /\ Rejected
    /\ ret.err[1] = JSONErr(Line("Expected 'STRING', '}', got 'ILLEGAL' instead"),
                            Position(1, 2))

C20_WitnessNested ==
    /\ input = Str("[1, {\"a\": {true: 1}}]")
    /\ Rejected
    /\ ret.err[1] = JSONErr(Line("Expected 'STRING', '}', got 'TRUE' instead"),
                            Position(1, 12))

\* the containers left open by the first n tokens of toks, innermost last
RECURSIVE Enclosing(_, _)
Enclosing(toks, n) ==
    IF n = 0 THEN <<>>
    ELSE LET open == Enclosing(toks, n - 1)
             k == toks[n].Type
         IN CASE k = LBRACE -> Append(open, "O")
              [] k = LBRACKET -> Append(open, "A")
              [] k \in {RBRACE, RBRACKET} /\ open # <<>> -> SubSeq(open, 1, Len(open) - 1)
              [] OTHER -> open

\* the index of the first token the grammar does not allow when it follows a
\* comma of a container of the kind given ("O" or "A"); 0 otherwise
AfterCommaAt(container) ==
    LET toks == TokensToEOF(input, LexerNew(input))
        bad == FirstBadToken(toks, 1, "top", <<>>)
        open == Enclosing(toks, bad - 1)
    IN IF /\ bad > 1
          /\ toks[bad - 1].Type = COMMA
          /\ open # <<>>
          /\ open[Len(open)] = container
       THEN bad ELSE 0

\* some comma of the input is followed by '}' or ']'
TrailingCommaSomewhere ==
    LET toks == TokensToEOF(input, LexerNew(input))
    IN \E i \in 1..(Len(toks) - 1) :
          toks[i].Type = COMMA /\ toks[i + 1].Type \in {RBRACE, RBRACKET}

\* ParseFile failed with the message and the position given, or before the
\* position given as earlier
FailsAtOrBefore(msg, pos, earlier) ==
    /\ Rejected
    /\ \/ Before(ret.err[1].Pos, earlier)
       \/ ret.err[1] = JSONErr(msg, pos)

\* C21: trailing commas are rejected at every depth: no input with a comma before
\* '}' or ']' is accepted; in an object a comma followed by a token that is not a
\* STRING fails with "Expected 'STRING', got '<kind>' instead" at that token, and
\* in an array a comma followed by ']' fails with "Expected 'STRING', 'NUMBER',
\* 'TRUE', 'FALSE', 'NULL'. got ']' instead" at that ']'.
C21_TrailingComma ==
    LET toks == TokensToEOF(input, LexerNew(input))
        o == AfterCommaAt("O")
        a == AfterCommaAt("A")
    IN Returned =>
          /\ TrailingCommaSomewhere => Rejected
          /\ o # 0 =>
                FailsAtOrBefore(Str("Expected 'STRING', got '") \o TypeString[toks[o].Type]
                                    \o Line("' instead"),
                                toks[o].Position, toks[o - 1].Position)
          /\ (a # 0 /\ toks[a].Type = RBRACKET) =>
                FailsAtOrBefore(
                    Line("Expected 'STRING', 'NUMBER', 'TRUE', 'FALSE', 'NULL'. got ']' instead"),
                    toks[a].Position, toks[a - 1].Position)

C21_Witness ==
    /\ input = Str("{\"a\":[1,{\"a\":1,}]}")
    /\ Rejected
    /\ ret.err[1] = JSONErr(Line("Expected 'STRING', got '}' instead"), Position(1, 16))

C21_WitnessArray ==
    /\ input = Str("[[1,]]")
    /\ Rejected
    /\ ret.err[1] =
          JSONErr(Line("Expected 'STRING', 'NUMBER', 'TRUE', 'FALSE', 'NULL'. got ']' instead"),
                  Position(1, 5))

\* ParseFile failed in parseNumber
NumberFailure == Rejected /\ SubSeq(ret.err[1].Msg, 1, 14) = Str("Failed parsing")

\* C22: parseNumber succeeds on every token the lexer made a NUMBER, however
\* large its exponent or its count of digits: ParseFile returns no "Failed
\* parsing ... as a float" error.
C22_AlwaysParses == ~NumberFailure

\* the NUMBER tokens ParseFile fails on are those of a magnitude no float64 has
C22_OutOfRangeOnly ==
    NumberFailure =>
        /\ curToken.Type = NUMBER
        /\ ret.err[1].Pos = curToken.Position
        /\ \E i \in 1..Len(curToken.Literal) :
              /\ curToken.Literal[i] \in {"e", "E"}
              /\ curToken.Literal[i + 1] # "-"
              /\ Len(curToken.Literal) - i >= 3

\* numbers of a large magnitude that a float64 has are accepted
C22_LargeAccepted == input = Str("[1e308, 1.7e308, 1e-400]") /\ Accepted

\* every call of NextToken from the lexer l on, up to MaxCallsAtEnd calls past the
\* end of the input, leaves the read cursor further than it found it
RECURSIVE CallsAdvance(_, _)
CallsAdvance(inp, l) ==
    \/ l.position >= Len(inp) + MaxCallsAtEnd
    \/ With(NextToken(inp, l), LAMBDA r :
          /\ r.l.position > l.position
          /\ r.l.readPosition = r.l.position + 1
          /\ CallsAdvance(inp, r.l))

\* an iteration of ParseFile's loop that goes on to the next has consumed input
IterationAdvances ==
    (pc = "loop" /\ pc' = "loop") =>
        /\ lexer'.position > lexer.position
        /\ Len(jf') = Len(jf) + 1

\* ParseFile has returned, New and ParseFile having called NextToken at most
\* once for each byte of the input and three times more
ReturnedInTime == Returned /\ lexer.position <= Len(input) + 3

\* the steps main has left at most: one for each byte NextToken has not read
\* and for each of the three calls it may make at the end of the input, and
\* those from one place of main to the next
Rank ==
    [p \in {"ParseFile", "loop", "returned", "projected", "valid", "invalid"} |->
        CASE p = "ParseFile" -> 4
          [] p = "loop" -> 3
          [] p = "returned" -> 2
          [] p = "projected" -> 1
          [] OTHER -> 0]

Variant == Rank[pc] + (Len(input) + 3 - lexer.position)

\* C23: termination: every call of NextToken leaves the read cursor strictly
\* further than before, at the end of the input too; every iteration of
\* ParseFile's loop consumes input; and ParseFile returns, a document or an
\* error, after a number of steps and of NextToken calls bounded by the length
\* of the input.
C23_Terminates ==
    /\ [](CallsAdvance(input, LexerNew(input)))
    /\ [](Variant >= 0)
    /\ [](Returned => ReturnedInTime)
    /\ [][IterationAdvances /\ Variant' < Variant]_vars

C23_Witness ==
    /\ input = Str("[1, 2, 3]")
    /\ Accepted
    /\ ReturnedInTime
    /\ lexer.position > Len(input)

\* toks[k] is a key of an object, and the grammar allows every token before it
\* and the key itself
IsKey(toks, k) ==
    LET bad == FirstBadToken(toks, 1, "top", <<>>)
        open == Enclosing(toks, k - 1)
    IN /\ k > 1
       /\ toks[k].Type = STRING_T
       /\ toks[k - 1].Type \in {LBRACE, COMMA}
       /\ open # <<>>
       /\ open[Len(open)] = "O"
       /\ (bad = 0 \/ bad > k)

\* the error the member with the key toks[k] fails with before its value is
\* parsed, by the order of the checks: the escapes of the key, the ':', the
\* duplicate; <<>> when it passes the three
MemberError(toks, k) ==
    LET esc == FirstBadEscape(toks[k].Literal, 1)
        next == toks[k + 1]
    IN IF esc = "unicode"
       THEN <<JSONErr(Line("Invalid unicode escape sequence"), toks[k].Position)>>
       ELSE IF esc = "escape"
       THEN <<JSONErr(Line("Invalid escape sequence"), toks[k].Position)>>
       ELSE IF next.Type # COLON
       THEN <<JSONErr(Str("Expected ':', got '") \o TypeString[next.Type]
                          \o Line("' instead"),
                      next.Position)>>
       ELSE IF DuplicateKeyAt(toks, 1, k + 1, <<>>) = k
       THEN <<JSONErr(Str("Duplicate JSON property '\"") \o toks[k].Literal
                          \o Line("\"'"),
                      next.Position)>>
       ELSE <<>>

\* C24: the checks of an object member run in a fixed order: the escapes of the
\* key, then the ':' (failing with "Expected ':', got '<kind>' instead" at the
\* token found in its place), then the duplicate test, then the value; so a
\* member that fails one of the first three is never accepted and, unless
\* ParseFile failed before its key, fails with the error of the first check it
\* fails, whatever its value is.
C24_CheckOrder ==
    LET toks == TokensToEOF(input, LexerNew(input))
    IN Returned =>
          \A k \in 1..(Len(toks) - 1) :
              (IsKey(toks, k) /\ MemberError(toks, k) # <<>>) =>
                  /\ Rejected
                  /\ \/ Before(ret.err[1].Pos, toks[k].Position)
                     \/ ret.err = MemberError(toks, k)

C24_Witness ==
    /\ input = Str("{\"a\":1,\"a\":,}")
    /\ Rejected
    /\ ret.err[1] = JSONErr(Line("Duplicate JSON property '\"a\"'"), Position(1, 11))

C24_WitnessColon ==
    /\ input = Str("{\"a\":1,\"a\" 2}")
    /\ Rejected
    /\ ret.err[1] = JSONErr(Line("Expected ':', got 'NUMBER' instead"), Position(1, 12))

C24_WitnessEscape ==
    /\ input = Str("{\"a\":1,\"a\\q\" 2}")
    /\ Rejected
    /\ ret.err[1] = JSONErr(Line("Invalid escape sequence"), Position(1, 8))

\* the index of the first token the grammar does not allow when it follows a
\* value of a container of the kind given ("O" or "A"); 0 otherwise
AfterValueAt(container) ==
    LET toks == TokensToEOF(input, LexerNew(input))
        bad == FirstBadToken(toks, 1, "top", <<>>)
        open == Enclosing(toks, bad - 1)
        last == toks[bad - 1].Type
    IN IF /\ bad > 2
          /\ open # <<>>
          /\ open[Len(open)] = container
          /\ \/ last \in {NUMBER, TRUE_T, FALSE_T, NULL_T, RBRACE, RBRACKET}
             \/ last = STRING_T /\ (container = "A" \/ toks[bad - 2].Type = COLON)
       THEN bad ELSE 0

\* ParseFile failed before the token toks[bad]: before the token that precedes
\* it, or at that token as a string or a number that parseValue rejects
FailedBefore(toks, bad) ==
    /\ Rejected
    /\ \/ Before(ret.err[1].Pos, toks[bad - 1].Position)
       \/ /\ ret.err[1].Pos = toks[bad - 1].Position
          /\ SubSeq(ret.err[1].Msg, 1, 7) \in {Str("Invalid"), Str("Failed ")}

\* the closing brace parseObject requires after its loop is missing
ClosingBraceError == Rejected /\ SubSeq(ret.err[1].Msg, 1, 14) = Str("Expected '}', ")

\* C25: missing separators: in an array a value followed by a token that is
\* neither ',' nor ']' fails with "Expected ',', ']'. got '<kind>' instead" at
\* that token; in an object a member value followed by a token that is neither
\* ',' nor '}', EOF included, fails with "Expected ',', got '<kind>' instead" at
\* that token; and parseObject never fails for want of the closing brace.
C25_MissingSeparator ==
    LET toks == TokensToEOF(input, LexerNew(input))
        o == AfterValueAt("O")
        a == AfterValueAt("A")
    IN Returned =>
          /\ ~ClosingBraceError
          /\ a # 0 =>
                /\ Rejected
                /\ \/ FailedBefore(toks, a)
                   \/ ret.err[1] =
                         JSONErr(Str("Expected ',', ']'. got '") \o TypeString[toks[a].Type]
                                     \o Line("' instead"),
                                 toks[a].Position)
          /\ o # 0 =>
                /\ Rejected
                /\ \/ FailedBefore(toks, o)
                   \/ ret.err[1] =
                         JSONErr(Str("Expected ',', got '") \o TypeString[toks[o].Type]
                                     \o Line("' instead"),
                                 toks[o].Position)

C25_Witness ==
    /\ input = Str("{\"a\":1")
    /\ Rejected
    /\ ret.err[1] = JSONErr(Line("Expected ',', got 'EOF' instead"), Position(1, 7))

C25_WitnessNested ==
    /\ input = Str("[1, [2, {\"a\": [3] 4}]]")
    /\ Rejected
    /\ ret.err[1] = JSONErr(Line("Expected ',', got 'NUMBER' instead"), Position(1, 19))

C25_WitnessBracket ==
    /\ AfterValueAt("A") # 0
    /\ Rejected
    /\ SubSeq(ret.err[1].Msg, 1, 22) = Str("Expected ',', ']'. got")
    /\ peekToken.Type = RBRACE

\* ParseFile failed with the message of noParseFnError for a token that follows
\* none of ':', ',' and '['
UnexpectedError == Rejected /\ SubSeq(ret.err[1].Msg, 1, 22) = Str("Unexpected token found")

\* ParseFile failed in parseValue, on a token with no function to parse a value
NoHandlerError ==
    /\ Rejected
    /\ curToken.Type \in NoHandlerKinds
    /\ ret.err[1].Pos = curToken.Position
    /\ \/ UnexpectedError
       \/ SubSeq(ret.err[1].Msg, 1, 28) = Str("Expected 'STRING', 'NUMBER',")

\* C26: no input makes ParseFile return "Unexpected token found '<kind>'": when
\* parseValue is reached with a current token that has no function to parse a
\* value, the token before it is ':', ',' or '[', a key of an object being
\* parsed only after the token is known to be a STRING.
C26_NeverUnexpected ==
    /\ ~UnexpectedError
    /\ NoHandlerError => prvToken.Type \in {COLON, COMMA, LBRACKET}

C26_Witness ==
    /\ NoHandlerError
    /\ prvToken.Type = LBRACKET
    /\ curToken.Type = COLON

\* a '{' followed by ',' fails before the key is parsed
C26_WitnessKey ==
    /\ Rejected
    /\ curToken.Type = LBRACE
    /\ peekToken.Type = COMMA
    /\ SubSeq(ret.err[1].Msg, 1, 22) = Str("Expected 'STRING', '}'")

\* the slice input[lo:hi] that the call of NextToken from the lexer l0 takes for
\* the literal of its token, as a set of one [lo, hi], or of none for a token of
\* one byte and for EOF
SliceTaken(inp, l0) ==
    LET l == skipWhitespace(inp, l0)
    IN IF l.ch = "\""
       THEN {[lo |-> l.position + 1, hi |-> readString(inp, l).l.position]}
       ELSE IF isLetter(l.ch)
       THEN {[lo |-> l.position, hi |-> readIdentifier(inp, l).l.position]}
       ELSE IF l.ch = "-" \/ isDigit(l.ch)
       THEN {[lo |-> l.position, hi |-> readNumber(inp, l).l.position]}
       ELSE {}

\* the indexes input[position-1] that readString reads in that call, one for
\* each turn of its loop, and those of the count of backslashes below them
IndexesRead(inp, l0) ==
    LET l == skipWhitespace(inp, l0)
    IN IF l.ch = "\""
       THEN {p - 1 : p \in (l.position + 1)..readString(inp, l).l.position}
       ELSE {}

\* every access of the next call of NextToken is inside the input
AccessesInBounds ==
    /\ \A a \in SliceTaken(input, lexer) : 0 <= a.lo /\ a.lo <= a.hi /\ a.hi <= Len(input)
    /\ \A i \in IndexesRead(input, lexer) : 0 <= i /\ i < Len(input)

\* the call has returned the slice it took as the literal of its token
LiteralIsSlice ==
    \A a \in SliceTaken(input, lexer) :
        /\ tok'.Literal = SubSeq(input, a.lo + 1, a.hi)
        /\ Len(tok'.Literal) = a.hi - a.lo

\* C27: the lexer never indexes outside the input: in every state reached from
\* New by calls of NextToken, at the end of the input and after it too,
\* readPosition = position + 1, position never decreases, and every index and
\* every slice that readString, readNumber and readIdentifier take of the input
\* has 0 <= lower <= upper <= len(input).
C27_InBounds ==
    /\ [](lexer.readPosition = lexer.position + 1)
    /\ [](AccessesInBounds)
    /\ [][lexer'.position >= lexer.position /\ LiteralIsSlice]_vars

\* an unterminated string read to the end of the input, and calls after it
C27_Witness ==
    /\ input = Str("\"a")
    /\ tok.Type = EOF
    /\ lexer.position = Len(input) + 3

C27_WitnessMinus ==
    /\ input = Str("-")
    /\ tok = Token(ILLEGAL, Str("-"), Position(1, 1))
    /\ lexer.position = 1

C27_WitnessEmpty ==
    /\ input = <<>>
    /\ tok.Type = EOF
    /\ lexer.position = 2

\* the index of the first NUL byte of inp, or 0
FirstNul(inp) ==
    IF \E i \in 1..Len(inp) : inp[i] = NUL
    THEN CHOOSE i \in 1..Len(inp) : inp[i] = NUL /\ \A j \in 1..(i - 1) : inp[j] # NUL
    ELSE 0

\* the input u ends inside a string literal: the last token the lexer makes of it
\* starts at a quote and runs to the end of u for want of a closing quote
EndsInsideString(u) ==
    LET toks == TokensToEOF(u, LexerNew(u))
        n == Len(toks)
    IN /\ n >= 2
       /\ toks[n - 1].Type = ILLEGAL
       /\ LET q == IndexAt(u, toks[n - 1].Position)
          IN /\ q <= Len(u)
             /\ u[q] = "\""
             /\ q + Len(toks[n - 1].Literal) = Len(u)

\* the part of the input before its first NUL byte, when it has one that is not
\* inside a string literal; as a set of one input, or of none
BeforeNul ==
    LET i == FirstNul(input)
    IN IF i # 0 /\ ~EndsInsideString(SubSeq(input, 1, i - 1))
       THEN {SubSeq(input, 1, i - 1)}
       ELSE {}

\* C28: a NUL byte met where a token would start is read as EOF and the parser
\* looks at no token after an EOF token: for every u and v, the NUL after u not
\* inside a string, ParseFile returns for u, NUL, v what it returns for u alone,
\* the same tree or the same error message and position.
C28_NulEndsInput ==
    Returned => \A u \in BeforeNul : ret = ParseFile(u)

\* a valid document, a NUL byte and more bytes: accepted
C28_Witness ==
    /\ input = Str("[1, 2, 3]") \o <<NUL>> \o Str(" ]")
    /\ BeforeNul = {Str("[1, 2, 3]")}
    /\ Accepted
    /\ Len(ret.doc[1].Elements) = 1

\* an error at the EOF token a NUL byte is read as, more bytes after it
C28_WitnessError ==
    /\ input = Str("[1,\n") \o <<NUL>> \o Str("\n{}")
    /\ BeforeNul # {}
    /\ Rejected
    /\ ret.err[1].Pos = Position(2, 1)

\* a NUL byte inside a string is outside the claim: the string is ILLEGAL
C28_WitnessInsideString ==
    /\ input = Str("[\"a") \o <<NUL>> \o Str("\"a")
    /\ BeforeNul = {}
    /\ Rejected
    /\ curToken.Type = ILLEGAL

====
